---- MODULE Spec2Model ----
(***************************************************************************)
(* Verification model of the EBX documentation server core:                *)
(*   - CacheManager (LRU detail cache)                                     *)
(*   - DocumentationIndexer (lifecycle, getClassDoc, query delegation)     *)
(*   - ClassDocParser.parseClassDoc (cache lookup, document read, store)   *)
(*   - SearchEngine (class, method, package and task queries)              *)
(*   - SearchIndexParser (class, method and package index construction)    *)
(*   - ClassDocParser extraction (kind, extends, implements, methods)      *)
(*   - the index snapshot writer (Maps written as plain JSON objects)      *)
(*   - the tool handlers (argument validation and delegation)              *)
(*   - the HTTP/SSE mode of the server (activeTransport, POST /message)    *)
(***************************************************************************)
EXTENDS Integers, Sequences, FiniteSets, TLC

VARIABLES
  cache,          \* CacheManager.cache : key -> cached value (a JS Map)
  accessOrder,    \* CacheManager.accessOrder : keys, least recently used first
  maxSize,        \* CacheManager.maxSize
  searchEngine,   \* DocumentationIndexer.searchEngine (null until initialized)
  classDocParser, \* DocumentationIndexer.classDocParser (null until initialized)
  version,        \* DocumentationIndexer.version
  initPc,         \* where a running initialize() call stands
  calls,          \* the getClassDoc calls: where each stands, what it returned
  lastQuery,      \* the last synchronous query and what it returned
  touched,        \* history: keys ordered by their most recent access (set or get hit)
  lastOp,         \* history: the last CacheManager call and the state it was made in
  initFailed,     \* history: some initialize() call has failed
  initOk,         \* history: some initialize() call has completed successfully
  inventory,      \* the javadoc inventory files the index was built from
  toolCalls,      \* the tool handler invocations: where each stands, what it answered
  activeTransport,\* HTTP/SSE mode: the activeTransport variable of main (0 is null)
  sse,            \* HTTP/SSE mode: where each SSE connection stands
  lastResponse    \* HTTP/SSE mode: the last answer to a POST /message

cacheVars == <<cache, accessOrder, maxSize>>
histVars == <<touched, lastOp>>
indexerVars == <<searchEngine, classDocParser, version, initPc, initFailed, initOk,
                 inventory>>
serverVars == <<toolCalls, activeTransport, sse, lastResponse>>
vars == <<cache, accessOrder, maxSize, searchEngine, classDocParser, version,
          initPc, calls, lastQuery, touched, lastOp, initFailed, initOk, inventory,
          toolCalls, activeTransport, sse, lastResponse>>

----------------------------------------------------------------------------
(* Bounds of the model *)

NumKeys == 3        \* how many distinct cache keys the callers use
NumValues == 2      \* how many distinct values the callers store
MaxCapacity == 2    \* capacities 1..MaxCapacity are explored
MaxLimit == 1       \* requested result limits 0..MaxLimit are explored
MaxConnections == 3 \* how many SSE connections clients open

\* The empty string is a legal key of a Map<string, ...>.
KeyPool == <<"", "a", "b", "c", "d", "e">>
CacheKeys == {KeyPool[i] : i \in 1..NumKeys}
CacheValues == 1..NumValues

----------------------------------------------------------------------------
(* Sequence helpers (Array.prototype.indexOf / splice / includes) *)

Range(s) == {s[i] : i \in 1..Len(s)}

\* Array.indexOf: the first position holding x, 0 when absent (JS: -1).
IndexOf(s, x) ==
  IF x \in Range(s) THEN CHOOSE i \in 1..Len(s) : s[i] = x /\ \A j \in 1..(i-1) : s[j] # x
  ELSE 0

\* Array.splice(index, 1): remove the element at position i.
RemoveAt(s, i) == [j \in 1..(Len(s)-1) |-> IF j < i THEN s[j] ELSE s[j+1]]

NoDuplicates(s) == \A i, j \in 1..Len(s) : s[i] = s[j] => i = j

\* JS truthiness of a string: only the empty string is falsy.
TruthyString(s) == s # ""

\* An optional argument or field: present with a value, or absent (undefined).
Some(v) == [has |-> TRUE, val |-> v]
NoString == [has |-> FALSE, val |-> ""]
NoNumber == [has |-> FALSE, val |-> 0]

----------------------------------------------------------------------------
(* CacheManager *)

\* A recency update that pushes the key without dropping its earlier
\* occurrence.
updateAccessOrder_push(order, key) == Append(order, key)

\* updateAccessOrder(key): drop the first occurrence of key, push key at the end.
updateAccessOrder(order, key) ==
  LET index == IndexOf(order, key)
      removed == IF index > 0 THEN RemoveAt(order, index) ELSE order
  IN Append(removed, key)

\* Map.delete
MapDelete(c, key) == [k \in (DOMAIN c) \ {key} |-> c[k]]

\* Map.set
MapSet(c, key, value) == [k \in (DOMAIN c) \cup {key} |-> IF k = key THEN value ELSE c[k]]

\* evictLRU(): shift the head of accessOrder; delete it from the map `if (lruKey)`.
evictLRU(c, order) ==
  IF Len(order) > 0
  THEN LET lruKey == Head(order)
       IN [cache |-> IF TruthyString(lruKey) THEN MapDelete(c, lruKey) ELSE c,
           accessOrder |-> Tail(order)]
  ELSE [cache |-> c, accessOrder |-> order]

\* A lookup that never finds anything.
CacheGet_miss(c, order, key) == [hit |-> FALSE, accessOrder |-> order]

\* get(key): on a hit refresh recency and return the value, else undefined.
CacheGet(c, order, key) ==
  IF key \in DOMAIN c
  THEN [hit |-> TRUE, accessOrder |-> updateAccessOrder(order, key)]
  ELSE [hit |-> FALSE, accessOrder |-> order]

\* A set that evicts whenever the cache is full, whether or not the key is
\* already stored.
CacheSet_evictWhenFull(c, order, max, key, value) ==
  LET ev == IF Cardinality(DOMAIN c) >= max
            THEN evictLRU(c, order)
            ELSE [cache |-> c, accessOrder |-> order]
  IN [cache |-> MapSet(ev.cache, key, value),
      accessOrder |-> updateAccessOrder(ev.accessOrder, key)]

\* set(key, value): evict when full and the key is new, store, refresh recency.
CacheSet(c, order, max, key, value) ==
  LET ev == IF Cardinality(DOMAIN c) >= max /\ key \notin DOMAIN c
            THEN evictLRU(c, order)
            ELSE [cache |-> c, accessOrder |-> order]
  IN [cache |-> MapSet(ev.cache, key, value),
      accessOrder |-> updateAccessOrder(ev.accessOrder, key)]

\* clear()
CacheClear == [cache |-> <<>>, accessOrder |-> <<>>]

\* new CacheManager(maxSize)
CacheNew(max) == [cache |-> <<>>, accessOrder |-> <<>>, maxSize |-> max]

----------------------------------------------------------------------------
(* String helpers (String.prototype.includes / endsWith / replace) *)

Includes(s, sub) ==
  \E i \in 1..(Len(s) - Len(sub) + 1) : SubSeq(s, i, i + Len(sub) - 1) = sub

EndsWith(s, suffix) ==
  Len(s) >= Len(suffix) /\ SubSeq(s, Len(s) - Len(suffix) + 1, Len(s)) = suffix

\* s.replace(/\./g, '/')
RECURSIVE DotsToSlashes(_)
DotsToSlashes(s) ==
  IF Len(s) = 0 THEN ""
  ELSE (IF SubSeq(s, 1, 1) = "." THEN "/" ELSE SubSeq(s, 1, 1))
         \o DotsToSlashes(SubSeq(s, 2, Len(s)))

----------------------------------------------------------------------------
(* Insertion-ordered maps (JS Map / the key order of a JSON object),
   as sequences of [key, value] records *)

OKeys(m) == [i \in 1..Len(m) |-> m[i].key]
OValues(m) == [i \in 1..Len(m) |-> m[i].value]
OHas(m, k) == \E i \in 1..Len(m) : m[i].key = k
OGet(m, k) == m[CHOOSE i \in 1..Len(m) : m[i].key = k].value
\* Map.set: an existing key keeps its position, a new key goes last.
OSet(m, k, v) ==
  IF OHas(m, k)
  THEN [i \in 1..Len(m) |-> IF m[i].key = k THEN [key |-> k, value |-> v] ELSE m[i]]
  ELSE Append(m, [key |-> k, value |-> v])

----------------------------------------------------------------------------
(* Inventory Parser: SearchIndexParser.buildClassIndex *)

\* The type inventory (type-search-index.js). An entry without a package
\* (the "All Classes and Interfaces" record) has p = "".
TypeEntries ==
  << [p |-> "", l |-> "All Classes and Interfaces"],
     [p |-> "com.onwbp.adaptation", l |-> "Adaptation"],
     [p |-> "com.orchestranetworks.schema", l |-> "PathAccessException"] >>

\* One loop iteration of buildClassIndex.
ClassIndexStep(classMap, entry) ==
  IF ~TruthyString(entry.p) THEN classMap
  ELSE LET fullyQualifiedName == entry.p \o "." \o entry.l
           htmlPath == DotsToSlashes(entry.p) \o "/" \o entry.l \o ".html"
           type == IF EndsWith(entry.l, "Exception") \/ EndsWith(entry.l, "Error")
                   THEN "exception" ELSE "class"
           classDoc == [fullyQualifiedName |-> fullyQualifiedName,
                        simpleName |-> entry.l,
                        package |-> entry.p,
                        type |-> type,
                        description |-> NoString,
                        methods |-> <<>>,
                        htmlPath |-> htmlPath]
       IN OSet(OSet(classMap, fullyQualifiedName, classDoc), entry.l, classDoc)

RECURSIVE ClassIndexLoop(_, _)
ClassIndexLoop(classMap, types) ==
  IF types = <<>> THEN classMap
  ELSE ClassIndexLoop(ClassIndexStep(classMap, Head(types)), Tail(types))

buildClassIndex(types) == ClassIndexLoop(<<>>, types)

----------------------------------------------------------------------------
(* Inventory Parser: SearchIndexParser.buildMethodIndex *)

\* The member inventory (member-search-index.js); u = "" when absent.
MemberEntries ==
  << [p |-> "com.onwbp.adaptation", c |-> "Adaptation", l |-> "getString(Path)",
      u |-> "getString(com.orchestranetworks.schema.Path)"],
     [p |-> "com.onwbp.adaptation", c |-> "Adaptation", l |-> "getString(String)",
      u |-> ""],
     [p |-> "com.onwbp.adaptation", c |-> "Adaptation", l |-> "MAX_SIZE", u |-> ""],
     [p |-> "com.orchestranetworks.schema", c |-> "Path", l |-> "parse(String)",
      u |-> "parse(java.lang.String)"] >>

\* label.split('(')[0]
RECURSIVE BeforeFirstParen(_)
BeforeFirstParen(s) ==
  IF Len(s) = 0 \/ SubSeq(s, 1, 1) = "(" THEN ""
  ELSE SubSeq(s, 1, 1) \o BeforeFirstParen(SubSeq(s, 2, Len(s)))

\* The percent escapes decodeURIComponent meets in member signatures.
PercentCodes == <<"%3C", "%3E", "%28", "%29", "%2C", "%5B", "%5D">>
PercentChars == <<"<", ">", "(", ")", ",", "[", "]">>

\* decodeURIComponent(u.replace(/%3C/g, '<').replace(/%3E/g, '>'))
RECURSIVE decodeSignature(_)
decodeSignature(u) ==
  IF Len(u) = 0 THEN ""
  ELSE IF Len(u) >= 3 /\ SubSeq(u, 1, 3) \in Range(PercentCodes)
       THEN PercentChars[IndexOf(PercentCodes, SubSeq(u, 1, 3))]
              \o decodeSignature(SubSeq(u, 4, Len(u)))
       ELSE SubSeq(u, 1, 1) \o decodeSignature(SubSeq(u, 2, Len(u)))

\* classDoc.methods.push(...) on the object classMap.get(fqn) returns: the
\* entries stored under the fully-qualified key and under the simple-name key
\* hold the same object, so every entry holding it shows the new method.
PushClassMethod(classMap, fqn, method) ==
  IF ~OHas(classMap, fqn) THEN classMap
  ELSE LET target == OGet(classMap, fqn).fullyQualifiedName
       IN [i \in 1..Len(classMap) |->
             IF classMap[i].value.fullyQualifiedName = target
             THEN [key |-> classMap[i].key,
                   value |-> [classMap[i].value EXCEPT !.methods = Append(@, method)]]
             ELSE classMap[i]]

\* One loop iteration of buildMethodIndex; st = [methodMap, classMap].
MethodIndexStep(st, entry) ==
  IF ~Includes(entry.l, "(") THEN st
  ELSE LET methodName == BeforeFirstParen(entry.l)
           fullyQualifiedClassName == entry.p \o "." \o entry.c
           signature == IF TruthyString(entry.u) THEN decodeSignature(entry.u)
                        ELSE entry.l
           methodEntry == [method |-> methodName,
                           signature |-> signature,
                           className |-> fullyQualifiedClassName,
                           packageName |-> entry.p,
                           returnType |-> NoString]
           old == IF OHas(st.methodMap, methodName)
                  THEN OGet(st.methodMap, methodName) ELSE <<>>
       IN [methodMap |-> OSet(st.methodMap, methodName, Append(old, methodEntry)),
           classMap |-> PushClassMethod(st.classMap, fullyQualifiedClassName,
                          [name |-> methodName, signature |-> signature,
                           className |-> fullyQualifiedClassName,
                           packageName |-> entry.p])]

RECURSIVE MethodIndexLoop(_, _)
MethodIndexLoop(st, members) ==
  IF members = <<>> THEN st
  ELSE MethodIndexLoop(MethodIndexStep(st, Head(members)), Tail(members))

\* Returns the method map and the class map with the methods lists filled in.
buildMethodIndex(members, classMap) ==
  MethodIndexLoop([methodMap |-> <<>>, classMap |-> classMap], members)

----------------------------------------------------------------------------
(* Inventory Parser: SearchIndexParser.buildPackageIndex *)

PackageEntries ==
  << [l |-> "All Packages"],
     [l |-> "com.onwbp.adaptation"],
     [l |-> "com.orchestranetworks.schema"] >>

\* for (const classDoc of classMap.values()) if (...) classes.push(fqn)
PackageClasses(classMap, name) ==
  LET hits == SelectSeq(OValues(classMap),
                LAMBDA c : c.package = name /\ Includes(c.fullyQualifiedName, "."))
  IN [i \in 1..Len(hits) |-> hits[i].fullyQualifiedName]

PackageIndexStep(packageMap, classMap, entry) ==
  IF entry.l = "All Packages" THEN packageMap
  ELSE OSet(packageMap, entry.l,
            [name |-> entry.l, classes |-> PackageClasses(classMap, entry.l)])

RECURSIVE PackageIndexLoop(_, _, _)
PackageIndexLoop(packageMap, classMap, packages) ==
  IF packages = <<>> THEN packageMap
  ELSE PackageIndexLoop(PackageIndexStep(packageMap, classMap, Head(packages)),
                        classMap, Tail(packages))

buildPackageIndex(packages, classMap) == PackageIndexLoop(<<>>, classMap, packages)

----------------------------------------------------------------------------
(* Index build: the snapshot written by buildIndex and read by initialize *)

\* The task table of buildIndex (first entities of two of its categories).
CategoriesByTask ==
  << [key |-> "data access",
      value |-> <<"com.onwbp.adaptation.Adaptation",
                  "com.onwbp.adaptation.AdaptationTable">>],
     [key |-> "schema",
      value |-> <<"com.orchestranetworks.schema.SchemaNode",
                  "com.orchestranetworks.schema.Path">>] >>

CorpusVersion == "6.1.0"

\* The inventory files of the corpus and the task table.
Corpus ==
  [types |-> TypeEntries, members |-> MemberEntries, packages |-> PackageEntries,
   categoriesByTask |-> CategoriesByTask]

\* The maps buildIndex builds from an inventory, and its task table.
builtMapsOf(inv) ==
  LET classMap0 == buildClassIndex(inv.types)
      built == buildMethodIndex(inv.members, classMap0)
      packageMap == buildPackageIndex(inv.packages, built.classMap)
  IN [classMap |-> built.classMap,
      methodMap |-> built.methodMap,
      packageMap |-> packageMap,
      categoriesByTask |-> inv.categoriesByTask]

\* map.forEach((value, key) => { obj[key] = value }) on obj = {}, seen
\* through JSON.stringify and JSON.parse: the own properties in insertion
\* order. The assignment obj['__proto__'] = value runs the __proto__ setter
\* of Object.prototype and creates no property. (Keys that are array
\* indices would be listed first; no identifier or package name is one.
\* Values are compared by content, so the copies JSON makes of an object
\* stored under two keys do not show.)
ObjectFromMap(m) == SelectSeq(m, LAMBDA e : e.key # "__proto__")

\* buildIndex over an inventory: the four maps and the version, as
\* serialized to index.json.
buildIndexOf(inv) ==
  LET maps == builtMapsOf(inv)
  IN [version |-> CorpusVersion,
      classes |-> ObjectFromMap(maps.classMap),
      methods |-> ObjectFromMap(maps.methodMap),
      packages |-> ObjectFromMap(maps.packageMap),
      categoriesByTask |-> maps.categoriesByTask]

\* buildIndex over the corpus.
buildIndex == buildIndexOf(Corpus)

----------------------------------------------------------------------------
(* More array and string helpers used by the SearchEngine *)

\* Array.slice(0, end), for any integer end.
SliceTo(s, end) ==
  LET n == IF end >= 0 THEN (IF end < Len(s) THEN end ELSE Len(s))
           ELSE (IF Len(s) + end > 0 THEN Len(s) + end ELSE 0)
  IN SubSeq(s, 1, n)

\* arr.filter((x, i, self) => self.indexOf(x) === i)
Unique(s) ==
  LET keep == {i \in 1..Len(s) : IndexOf(s, s[i]) = i}
      F[i \in 0..Len(s)] ==
        IF i = 0 THEN <<>> ELSE IF i \in keep THEN Append(F[i-1], s[i]) ELSE F[i-1]
  IN F[Len(s)]

RECURSIVE Flatten(_)
Flatten(ss) == IF ss = <<>> THEN <<>> ELSE Head(ss) \o Flatten(Tail(ss))

UpperAlpha == "ABCDEFGHIJKLMNOPQRSTUVWXYZ"
LowerAlpha == "abcdefghijklmnopqrstuvwxyz"

RECURSIVE ToLowerCase(_)
ToLowerCase(s) ==
  IF Len(s) = 0 THEN ""
  ELSE LET c == SubSeq(s, 1, 1)
           up == {i \in 1..Len(UpperAlpha) : SubSeq(UpperAlpha, i, i) = c}
       IN (IF up = {} THEN c
           ELSE LET i == CHOOSE i \in up : TRUE IN SubSeq(LowerAlpha, i, i))
            \o ToLowerCase(SubSeq(s, 2, Len(s)))


----------------------------------------------------------------------------
(* SearchEngine *)

DefaultLimit == 10   \* options.limit || 10
OverFetch == 3       \* limit * 3
PreviewSize == 5     \* slice(0, 5)
DescriptionSize == 200  \* description?.substring(0, 200)

\* new SearchEngine(index): the four maps and the three searched collections.
NewSearchEngine(index) ==
  [isNull |-> FALSE,
   classMap |-> index.classes,
   methodMap |-> index.methods,
   packageMap |-> index.packages,
   categoriesByTask |-> index.categoriesByTask,
   classes |-> SelectSeq(OValues(index.classes),
                 LAMBDA c : Includes(c.fullyQualifiedName, ".")),
   methods |-> Flatten(OValues(index.methods)),
   packages |-> OValues(index.packages)]

\* The ranked match lists Fuse can produce over a collection of n items:
\* every item at most once, in any order (positions in the collection).
RankedLists(n) ==
  UNION {{r \in [1..k -> 1..n] : \A i, j \in 1..k : r[i] = r[j] => i = j} : k \in 0..n}

\* A search that falls back to the whole collection when nothing matches.
FuseSearch_fallback(collection, ranked, limit) ==
  LET items == IF ranked = <<>> THEN collection
               ELSE [i \in 1..Len(ranked) |-> collection[ranked[i]]]
  IN IF limit > -1 THEN SliceTo(items, limit) ELSE items

\* fuse.search(query, {limit}): the ranked matches of the query, cut to
\* `limit` when limit > -1.
FuseSearch(collection, ranked, limit) ==
  LET items == [i \in 1..Len(ranked) |-> collection[ranked[i]]]
  IN IF limit > -1 THEN SliceTo(items, limit) ELSE items

\* r => r.item.type === options.type
matchesType(item, type) == item.type = type

\* A package filter that accepts every package containing the given text.
matchesPackage_includes(item, package) == Includes(item.package, package)

\* r => r.item.package === options.package
matchesPackage(item, package) == item.package = package

\* searchClasses(query, options); `ranked` is what Fuse matches for query.
searchClasses(engine, ranked, options) ==
  LET limit == IF options.limit.has /\ options.limit.val # 0
               THEN options.limit.val ELSE DefaultLimit
      found == FuseSearch(engine.classes, ranked, limit * OverFetch)
      byType == IF options.type.has /\ TruthyString(options.type.val)
                   /\ options.type.val # "all"
                THEN SelectSeq(found, LAMBDA c : matchesType(c, options.type.val))
                ELSE found
      byPackage == IF options.package.has /\ TruthyString(options.package.val)
                   THEN SelectSeq(byType,
                                  LAMBDA c : matchesPackage(c, options.package.val))
                   ELSE byType
      top == SliceTo(byPackage, limit)
  IN [i \in 1..Len(top) |->
        [name |-> top[i].simpleName,
         fullyQualifiedName |-> top[i].fullyQualifiedName,
         type |-> top[i].type,
         package |-> top[i].package,
         description |-> IF top[i].description.has
                         THEN Some(SubSeq(top[i].description.val, 1,
                                 IF Len(top[i].description.val) < DescriptionSize
                                 THEN Len(top[i].description.val)
                                 ELSE DescriptionSize))
                         ELSE NoString,
         keyMethods |->
           LET first == SliceTo(top[i].methods, PreviewSize)
           IN Unique([j \in 1..Len(first) |-> first[j].name])]]

\* r => r.item.className.toLowerCase().includes(classNameLower)
matchesClassName(item, className) ==
  Includes(ToLowerCase(item.className), ToLowerCase(className))

\* A return-type filter that lets entries without a return type through.
matchesReturnType_lenient(item, returnType) ==
  \/ ~item.returnType.has
  \/ Includes(ToLowerCase(item.returnType.val), ToLowerCase(returnType))

\* r => r.item.returnType?.toLowerCase().includes(returnTypeLower)
matchesReturnType(item, returnType) ==
  /\ item.returnType.has
  /\ Includes(ToLowerCase(item.returnType.val), ToLowerCase(returnType))

\* searchMethods(methodName, options); an entry built from the inventory
\* carries no returnType.
searchMethods(engine, ranked, options) ==
  LET limit == IF options.limit.has /\ options.limit.val # 0
               THEN options.limit.val ELSE DefaultLimit
      found == FuseSearch(engine.methods, ranked, limit * OverFetch)
      byClass == IF options.className.has /\ TruthyString(options.className.val)
                 THEN SelectSeq(found,
                                LAMBDA m : matchesClassName(m, options.className.val))
                 ELSE found
      byReturn == IF options.returnType.has /\ TruthyString(options.returnType.val)
                  THEN SelectSeq(byClass,
                                 LAMBDA m : matchesReturnType(m, options.returnType.val))
                  ELSE byClass
  IN SliceTo(byReturn, limit)

\* searchPackages(query, limit = 10)
searchPackages(engine, ranked, limit) ==
  LET found == FuseSearch(engine.packages, ranked,
                          IF limit.has THEN limit.val ELSE DefaultLimit)
  IN [i \in 1..Len(found) |->
        [name |-> found[i].name,
         keyClasses |-> SliceTo(found[i].classes, PreviewSize)]]

\* Stable insertion of r into a list sorted by descending score num/den.
RECURSIVE InsertByScore(_, _)
InsertByScore(sorted, r) ==
  IF sorted = <<>> THEN <<r>>
  ELSE IF r.num * Head(sorted).den > Head(sorted).num * r.den
       THEN <<r>> \o sorted
       ELSE <<Head(sorted)>> \o InsertByScore(Tail(sorted), r)

RECURSIVE SortByScore(_)
SortByScore(rs) ==
  IF rs = <<>> THEN <<>>
  ELSE InsertByScore(SortByScore(SubSeq(rs, 1, Len(rs) - 1)), rs[Len(rs)])

\* findPackagesByTask(task); relevanceScore is the fraction num/den.
findPackagesByTask(engine, task) ==
  LET taskLower == ToLowerCase(task)
      matching == SelectSeq(engine.categoriesByTask, LAMBDA e :
                    \/ Includes(ToLowerCase(e.key), taskLower)
                    \/ Includes(taskLower, ToLowerCase(e.key)))
      relevantClasses == Flatten(OValues(matching))
      known == SelectSeq(relevantClasses, LAMBDA c : OHas(engine.classMap, c))
      packageNames == Unique([i \in 1..Len(known) |->
                                OGet(engine.classMap, known[i]).package])
      present == SelectSeq(packageNames, LAMBDA n : OHas(engine.packageMap, n))
      results == [i \in 1..Len(present) |->
                    LET pkg == OGet(engine.packageMap, present[i])
                        keyClasses == SliceTo(
                          SelectSeq(pkg.classes, LAMBDA c : c \in Range(relevantClasses)),
                          PreviewSize)
                    IN [name |-> pkg.name,
                        keyClasses |-> keyClasses,
                        num |-> Len(keyClasses),
                        den |-> IF Len(relevantClasses) > 1
                                THEN Len(relevantClasses) ELSE 1]]
  IN SortByScore(results)

\* A lookup that falls back to the first entry of the map for an unknown name.
getClass_fallback(engine, className) ==
  IF OHas(engine.classMap, className)
  THEN [found |-> TRUE, value |-> OGet(engine.classMap, className)]
  ELSE [found |-> TRUE, value |-> OValues(engine.classMap)[1]]

\* getClass(className): Map.get, a value or undefined.
getClass(engine, className) ==
  IF OHas(engine.classMap, className)
  THEN [found |-> TRUE, value |-> OGet(engine.classMap, className)]
  ELSE [found |-> FALSE, value |-> [fullyQualifiedName |-> "", htmlPath |-> ""]]

\* getStats()
getStats(engine) ==
  [classes |-> Len(SelectSeq(OValues(engine.classMap),
                 LAMBDA c : Includes(c.fullyQualifiedName, "."))),
   classesWithAliases |-> Len(engine.classMap),
   methods |-> Len(Flatten(OValues(engine.methodMap))),
   packages |-> Len(engine.packageMap),
   categories |-> Len(engine.categoriesByTask)]

----------------------------------------------------------------------------
(* History of accesses, kept beside the program state *)

Touch(hist, key) == Append(SelectSeq(hist, LAMBDA x : x # key), key)

\* The key of S whose most recent access is the oldest.
OldestOf(hist, S) ==
  LET pos == {i \in 1..Len(hist) : hist[i] \in S}
  IN hist[CHOOSE i \in pos : \A j \in pos : i <= j]

NoOp == [op |-> "none", key |-> "", preKeys |-> {}, oldest |-> "", hit |-> FALSE]

----------------------------------------------------------------------------
(* ClassDocParser *)

\* fullyQualifiedName.lastIndexOf('.'), 0 when there is no dot (JS: -1).
LastDot(s) ==
  LET dots == {i \in 1..Len(s) : SubSeq(s, i, i) = "."}
  IN IF dots = {} THEN 0 ELSE CHOOSE i \in dots : \A j \in dots : j <= i

\* A .member-signature element: its spans, by class, with their text.
Span(cls, text) == [cls |-> cls, text |-> text]

\* A .method-details .detail section: the text of its h3 and the spans of
\* its .member-signature.
Section(heading, signature) == [heading |-> heading, signature |-> signature]

\* A parsed class document: the text of .type-signature, the first
\* .class-description .block as markdown, the `code a` anchors under the
\* 'All Superinterfaces:' and the 'All Known Implementing Classes:' notes,
\* and the method detail sections.
Document(typeSignature, description, superNotes, implNotes, details) ==
  [typeSignature |-> typeSignature, description |-> description,
   superNotes |-> superNotes, implNotes |-> implNotes, details |-> details]

GetStringSection ==
  Section("getString",
          << Span("return-type", "String"), Span("", " "),
             Span("element-name", "getString"), Span("", "(Path aPath)") >>)

\* The class documents of the javadoc archive, by path.
Documents ==
  << [key |-> "com/onwbp/adaptation/Adaptation.html",
      value |-> Document("public interface Adaptation",
                         "Provides read-only access to data values.",
                         <<>>, <<>>, <<GetStringSection>>)],
     [key |-> "com/orchestranetworks/schema/PathAccessException.html",
      value |-> Document("public class PathAccessException extends RuntimeException",
                         "", <<>>, <<>>, <<>>)] >>

\* The kind read off the type signature, tested in the order of the code.
determineType(typeSignature) ==
  IF Includes(typeSignature, "interface") THEN "interface"
  ELSE IF Includes(typeSignature, "enum") THEN "enum"
  ELSE IF Includes(typeSignature, "@interface") THEN "annotation"
  ELSE IF Includes(typeSignature, "Exception") \/ Includes(typeSignature, "Error")
       THEN "exception"
  ELSE "class"

CharsOf(s) == {SubSeq(s, i, i) : i \in 1..Len(s)}

\* \w and \s of the regular expressions, and the classes built from them
WordChars == CharsOf("ABCDEFGHIJKLMNOPQRSTUVWXYZabcdefghijklmnopqrstuvwxyz0123456789_")
SpaceChars == {" ", "\n", "\t"}
ExtendsChars == WordChars \cup {"."}                        \* [\w.]
ImplementsChars == WordChars \cup {".", ","} \cup SpaceChars   \* [\w.,\s]

\* The length of the longest run of characters of `chars` that starts at i.
RunOf(s, i, chars) ==
  LET stops == {j \in i..Len(s) : SubSeq(s, j, j) \notin chars}
  IN IF stops = {} THEN Len(s) - i + 1
     ELSE (CHOOSE j \in stops : \A k \in stops : j <= k) - i

\* String.prototype.trim
Trim(s) ==
  LET solid == {i \in 1..Len(s) : SubSeq(s, i, i) \notin SpaceChars}
  IN IF solid = {} THEN ""
     ELSE SubSeq(s, CHOOSE i \in solid : \A j \in solid : i <= j,
                    CHOOSE i \in solid : \A j \in solid : j <= i)

\* String.prototype.split(sep) for a one-character separator
RECURSIVE Split(_, _)
Split(s, sep) ==
  LET seps == {i \in 1..Len(s) : SubSeq(s, i, i) = sep}
  IN IF seps = {} THEN <<s>>
     ELSE LET i == CHOOSE i \in seps : \A j \in seps : i <= j
          IN <<SubSeq(s, 1, i - 1)>> \o Split(SubSeq(s, i + 1, Len(s)), sep)

\* s.split('.').pop()
LastSegment(s) == SubSeq(s, LastDot(s) + 1, Len(s))

\* s.match(/keyword\s+([chars]+)/): the leftmost match and its group. \s+
\* takes the whole run of spaces, and gives one back when the group could
\* not start otherwise.
MatchKeyword(s, keyword, chars) ==
  LET startOf(i) ==
        LET j == i + Len(keyword)
            k == j + RunOf(s, j, SpaceChars)
        IN IF k = j THEN 0
           ELSE IF RunOf(s, k, chars) >= 1 THEN k
           ELSE IF k - j >= 2 /\ SubSeq(s, k - 1, k - 1) \in chars THEN k - 1
           ELSE 0
      at == {i \in 1..(Len(s) - Len(keyword) + 1) :
               SubSeq(s, i, i + Len(keyword) - 1) = keyword /\ startOf(i) > 0}
  IN IF at = {} THEN [found |-> FALSE, group |-> ""]
     ELSE LET i == CHOOSE i \in at : \A j \in at : i <= j
              b == startOf(i)
          IN [found |-> TRUE, group |-> SubSeq(s, b, b + RunOf(s, b, chars) - 1)]

\* forEach(x => { if (!list.includes(x)) list.push(x) })
RECURSIVE PushMissing(_, _)
PushMissing(list, items) ==
  IF items = <<>> THEN list
  ELSE PushMissing(IF Head(items) \in Range(list) THEN list
                   ELSE Append(list, Head(items)), Tail(items))

\* extractExtends: the anchors of the 'All Superinterfaces:' notes whose
\* href is set and not absolute, then the name after `extends` in the type
\* signature unless the list includes it.
extractExtends(document) ==
  LET local == SelectSeq(document.superNotes,
                 LAMBDA a : TruthyString(a.href)
                            /\ ~(Len(a.href) >= 4 /\ SubSeq(a.href, 1, 4) = "http"))
      extendsList == [i \in 1..Len(local) |-> local[i].text]
      extendsMatch == MatchKeyword(document.typeSignature, "extends", ExtendsChars)
      className == IF TruthyString(LastSegment(extendsMatch.group))
                   THEN LastSegment(extendsMatch.group) ELSE extendsMatch.group
  IN IF extendsMatch.found THEN PushMissing(extendsList, <<className>>)
     ELSE extendsList

\* extractImplements: the anchors of the 'All Known Implementing Classes:'
\* notes, then the names after `implements` in the type signature that the
\* list does not include.
extractImplements(document) ==
  LET implementsList == [i \in 1..Len(document.implNotes) |-> document.implNotes[i].text]
      implementsMatch == MatchKeyword(document.typeSignature, "implements",
                                      ImplementsChars)
      parts == Split(implementsMatch.group, ",")
      interfaces == [i \in 1..Len(parts) |->
                       IF TruthyString(LastSegment(Trim(parts[i])))
                       THEN LastSegment(Trim(parts[i])) ELSE Trim(parts[i])]
  IN IF implementsMatch.found THEN PushMissing(implementsList, interfaces)
     ELSE implementsList

\* $(...).text() of an element: the text of its spans, one after the other
RECURSIVE TextOf(_)
TextOf(spans) == IF spans = <<>> THEN "" ELSE Head(spans).text \o TextOf(Tail(spans))

DefaultReturnType == "void"   \* returnType || 'void'

MethodModifiers ==
  <<"public", "private", "protected", "static", "final", "abstract", "default">>

\* extractMethods: one MethodDoc per detail section with a non-empty
\* heading (parameters, description and deprecated are left out here).
extractMethods(document, className, packageName) ==
  LET kept == SelectSeq(document.details, LAMBDA s : TruthyString(Trim(s.heading)))
      methodOf(s) ==
        LET signature == Trim(TextOf(s.signature))
            returnType == Trim(TextOf(SelectSeq(s.signature,
                                         LAMBDA e : e.cls = "return-type")))
        IN [name |-> Trim(s.heading),
            signature |-> signature,
            returnType |-> IF TruthyString(returnType) THEN returnType
                           ELSE DefaultReturnType,
            modifiers |-> SelectSeq(MethodModifiers, LAMBDA m : Includes(signature, m)),
            className |-> className,
            packageName |-> packageName]
  IN [i \in 1..Len(kept) |-> methodOf(kept[i])]

\* extractClassInfo($, fullyQualifiedName, htmlPath): the ClassDocumentation
\* object built from a parsed document; obj is the identity of the new
\* object (fields, seeAlso and deprecated are left out here).
extractClassInfoOf(document, fullyQualifiedName, htmlPath, obj) ==
  LET last == SubSeq(fullyQualifiedName, LastDot(fullyQualifiedName) + 1,
                     Len(fullyQualifiedName))
      packageName == SubSeq(fullyQualifiedName, 1, LastDot(fullyQualifiedName) - 1)
  IN [fullyQualifiedName |-> fullyQualifiedName,
      simpleName |-> IF TruthyString(last) THEN last ELSE fullyQualifiedName,
      package |-> packageName,
      type |-> determineType(document.typeSignature),
      description |-> document.description,
      extends |-> extractExtends(document),
      implements |-> extractImplements(document),
      methods |-> extractMethods(document, fullyQualifiedName, packageName),
      htmlPath |-> htmlPath,
      obj |-> obj]

\* The extraction of the document read at htmlPath under the javadoc root
\* of the running server.
extractClassInfo(fullyQualifiedName, htmlPath, obj) ==
  extractClassInfoOf(OGet(Documents, htmlPath), fullyQualifiedName, htmlPath, obj)

NoDoc == [fullyQualifiedName |-> "", simpleName |-> "", package |-> "",
          type |-> "", description |-> "", extends |-> <<>>, implements |-> <<>>,
          methods |-> <<>>, htmlPath |-> "", obj |-> 0]

NullParser == [isNull |-> TRUE, javadocRoot |-> ""]
NewClassDocParser(javadocRoot) == [isNull |-> FALSE, javadocRoot |-> javadocRoot]

----------------------------------------------------------------------------
(* DocumentationIndexer *)

NullEngine == [isNull |-> TRUE]

ZipPath == "ebx-core-javadoc.zip"

\* What readFile(indexPath) and JSON.parse can meet: no file, a file that
\* is not JSON, JSON without the maps, and the snapshot buildIndex wrote.
MissingFile == [exists |-> FALSE, json |-> FALSE, hasMaps |-> FALSE, version |-> NoString]
GarbageFile == [exists |-> TRUE, json |-> FALSE, hasMaps |-> FALSE, version |-> NoString]
NoMapsFile == [exists |-> TRUE, json |-> TRUE, hasMaps |-> FALSE,
               version |-> Some(CorpusVersion)]
GoodFile == [exists |-> TRUE, json |-> TRUE, hasMaps |-> TRUE,
             version |-> Some(CorpusVersion)]
SnapshotFiles == {MissingFile, GarbageFile, NoMapsFile, GoodFile}

\* An initialize() that installs an engine and a parser before it loads the
\* snapshot, and so leaves them behind when the load fails.
initialize_eager(file, engine, parser, ver) ==
  IF ~file.exists \/ ~file.json \/ ~file.hasMaps
  THEN [ok |-> FALSE, searchEngine |-> NewSearchEngine(buildIndex),
        classDocParser |-> NewClassDocParser(ZipPath), version |-> ver]
  ELSE [ok |-> TRUE, searchEngine |-> NewSearchEngine(buildIndex),
        classDocParser |-> NewClassDocParser(ZipPath), version |-> file.version]

\* initialize(), from the completion of readFile on: the fields it leaves
\* behind and whether it returned (ok) or threw.
initialize(file, engine, parser, ver) ==
  IF ~file.exists \/ ~file.json
  THEN [ok |-> FALSE, searchEngine |-> engine, classDocParser |-> parser,
        version |-> ver]
  ELSE LET v == IF file.version.has /\ TruthyString(file.version.val)
                THEN file.version ELSE NoString
       IN IF ~file.hasMaps
          THEN [ok |-> FALSE, searchEngine |-> engine, classDocParser |-> parser,
                version |-> v]
          ELSE [ok |-> TRUE, searchEngine |-> NewSearchEngine(buildIndex),
                classDocParser |-> NewClassDocParser(ZipPath), version |-> v]

\* A guard that never throws.
ensureInitialized_off(engine, parser) == FALSE

\* ensureInitialized(): TRUE when it throws 'not initialized'.
ensureInitialized(engine, parser) == engine.isNull \/ parser.isNull

----------------------------------------------------------------------------
(* States shared by the specifications *)

\* The callers that may have a getClassDoc call in flight at the same time.
Callers == {"c1", "c2"}

IdleCall == [pc |-> "idle", name |-> "", key |-> "", path |-> "",
             outcome |-> "none", doc |-> NoDoc, reads |-> 0, readOk |-> "none"]

NoQuery == [op |-> "none", outcome |-> "none"]

\* A DocumentationIndexer right after its constructor.
FreshIndexer ==
  /\ searchEngine = NullEngine
  /\ classDocParser = NullParser
  /\ version = NoString
  /\ initPc = "idle"
  /\ initFailed = FALSE
  /\ initOk = FALSE
  /\ inventory = Corpus
  /\ lastQuery = NoQuery

\* No tool call has been made and the HTTP server has seen no request.
NoToolCall == [pc |-> "idle", tool |-> "none", args |-> [given |-> FALSE],
               outcome |-> "none", message |-> "", core |-> <<>>]

Connections == 1..MaxConnections

FreshServer ==
  /\ toolCalls = [p \in {} |-> NoToolCall]
  /\ activeTransport = 0
  /\ sse = [c \in Connections |-> "none"]
  /\ lastResponse = 0

----------------------------------------------------------------------------
(* Specification SpecCache: a CacheManager driven by arbitrary get/set/clear *)

InitCache ==
  /\ \E n \in 1..MaxCapacity :
       /\ maxSize = CacheNew(n).maxSize
       /\ cache = CacheNew(n).cache
       /\ accessOrder = CacheNew(n).accessOrder
  /\ touched = <<>>
  /\ lastOp = NoOp
  /\ FreshServer
  /\ FreshIndexer
  /\ calls = [p \in {} |-> IdleCall]

Get(key) ==
  LET r == CacheGet(cache, accessOrder, key)
  IN /\ accessOrder' = r.accessOrder
     /\ touched' = IF r.hit THEN Touch(touched, key) ELSE touched
     /\ lastOp' = [op |-> "get", key |-> key, preKeys |-> DOMAIN cache,
                   oldest |-> "", hit |-> r.hit]
     /\ UNCHANGED <<cache, maxSize, indexerVars, serverVars, calls, lastQuery>>

Set(key, value) ==
  LET r == CacheSet(cache, accessOrder, maxSize, key, value)
  IN /\ cache' = r.cache
     /\ accessOrder' = r.accessOrder
     /\ touched' = Touch(touched, key)
     /\ lastOp' = [op |-> "set", key |-> key, preKeys |-> DOMAIN cache,
                   oldest |-> IF DOMAIN cache = {} THEN ""
                              ELSE OldestOf(touched, DOMAIN cache),
                   hit |-> key \in DOMAIN cache]
     /\ UNCHANGED <<maxSize, indexerVars, serverVars, calls, lastQuery>>

Clear ==
  /\ cache' = CacheClear.cache
  /\ accessOrder' = CacheClear.accessOrder
  /\ touched' = <<>>
  /\ lastOp' = [op |-> "clear", key |-> "", preKeys |-> DOMAIN cache,
                oldest |-> "", hit |-> FALSE]
  /\ UNCHANGED <<maxSize, indexerVars, serverVars, calls, lastQuery>>

NextCache ==
  \/ \E key \in CacheKeys : Get(key)
  \/ \E key \in CacheKeys, value \in CacheValues : Set(key, value)
  \/ Clear

SpecCache == InitCache /\ [][NextCache]_vars

----------------------------------------------------------------------------
(* Specification SpecEngine: a SearchEngine built over the snapshot,
   answering class searches *)

ClassSearchOptions ==
  [limit : {NoNumber} \cup {Some(n) : n \in 0..MaxLimit},
   type : {NoString, Some("all"), Some("class"), Some("exception")},
   package : {NoString, Some(""), Some("com.onwbp"), Some("com.onwbp.adaptation")}]

InitEngine ==
  /\ searchEngine = NewSearchEngine(buildIndex)
  /\ classDocParser = NullParser
  /\ version = NoString
  /\ initPc = "idle"
  /\ initFailed = FALSE
  /\ initOk = FALSE
  /\ inventory = Corpus
  /\ calls = [p \in {} |-> IdleCall]
  /\ lastQuery = NoQuery
  /\ maxSize = CacheNew(MaxCapacity).maxSize
  /\ cache = CacheNew(MaxCapacity).cache
  /\ accessOrder = CacheNew(MaxCapacity).accessOrder
  /\ touched = <<>>
  /\ lastOp = NoOp
  /\ FreshServer

\* SearchEngine.searchClasses(query, options)
EngineSearchClasses ==
  \E options \in ClassSearchOptions,
     ranked \in RankedLists(Len(searchEngine.classes)) :
    /\ lastQuery' = [op |-> "searchClasses", outcome |-> "ok", options |-> options,
                     results |-> searchClasses(searchEngine, ranked, options)]
    /\ UNCHANGED <<cacheVars, histVars, serverVars, indexerVars, calls>>

NextEngine == EngineSearchClasses

SpecEngine == InitEngine /\ [][NextEngine]_vars

----------------------------------------------------------------------------
(* Specification SpecIndexer: a DocumentationIndexer from its construction
   on, with its detail cache: initialize(), the getClassDoc() calls of one
   caller, and the synchronous queries *)

\* The class names callers ask getClassDoc for: a fully-qualified key and
\* the simple-name key of one entity, the simple-name key of another, and
\* a name that is no key of the index.
RequestedNames ==
  {"com.onwbp.adaptation.Adaptation", "Adaptation", "PathAccessException",
   "NoSuchClass"}

\* How many matches Fuse reports to a query made through the indexer.
RankedUpTo(n, m) == {r \in RankedLists(n) : Len(r) <= m}

\* The identity of a newly allocated object: the first one not referenced.
FreshObj ==
  LET used == {cache[k].obj : k \in DOMAIN cache} \cup {calls[p].doc.obj : p \in DOMAIN calls}
  IN CHOOSE n \in 1..(Cardinality(used) + 1) : n \notin used

InitIndexer ==
  /\ \E n \in 1..MaxCapacity :
       /\ maxSize = CacheNew(n).maxSize
       /\ cache = CacheNew(n).cache
       /\ accessOrder = CacheNew(n).accessOrder
  /\ touched = <<>>
  /\ lastOp = NoOp
  /\ FreshServer
  /\ FreshIndexer
  /\ calls = [p \in {"c1"} |-> IdleCall]

\* initialize() up to `await readFile(this.indexPath)`
InitializeCall ==
  /\ initPc = "idle"
  /\ initPc' = "reading"
  /\ UNCHANGED <<cacheVars, histVars, serverVars, searchEngine, classDocParser, version,
                 initFailed, initOk, inventory, calls, lastQuery>>

\* initialize() from the completion of readFile to its end
InitializeFinish ==
  /\ initPc = "reading"
  /\ \E file \in SnapshotFiles :
       LET r == initialize(file, searchEngine, classDocParser, version)
       IN /\ searchEngine' = r.searchEngine
          /\ classDocParser' = r.classDocParser
          /\ version' = r.version
          /\ initFailed' = (initFailed \/ ~r.ok)
          /\ initOk' = (initOk \/ r.ok)
  /\ initPc' = "idle"
  /\ UNCHANGED <<cacheVars, histVars, serverVars, inventory, calls, lastQuery>>

\* getClassDoc(className) up to its return or to `await fs.readFile(fullPath)`
\* inside parseClassDoc: where the call stands then, and the recency order.
getClassDocBegin(name) ==
  IF ensureInitialized(searchEngine, classDocParser)
  THEN [call |-> [IdleCall EXCEPT !.pc = "done", !.name = name,
                                  !.outcome = "notInitialized"],
        accessOrder |-> accessOrder]
  ELSE IF searchEngine.isNull \/ classDocParser.isNull
  THEN [call |-> [IdleCall EXCEPT !.pc = "done", !.name = name,
                                  !.outcome = "TypeError"],
        accessOrder |-> accessOrder]
  ELSE LET classInfo == getClass(searchEngine, name)
           fqn == classInfo.value.fullyQualifiedName
           cached == CacheGet(cache, accessOrder, fqn)
       IN IF ~classInfo.found
          THEN [call |-> [IdleCall EXCEPT !.pc = "done", !.name = name,
                                          !.outcome = "null"],
                accessOrder |-> accessOrder]
          ELSE IF cached.hit
          THEN [call |-> [IdleCall EXCEPT !.pc = "done", !.name = name, !.key = fqn,
                                          !.path = classInfo.value.htmlPath,
                                          !.outcome = "doc", !.doc = cache[fqn]],
                accessOrder |-> cached.accessOrder]
          ELSE [call |-> [IdleCall EXCEPT !.pc = "reading", !.name = name, !.key = fqn,
                                          !.path = classInfo.value.htmlPath],
                accessOrder |-> cached.accessOrder]

\* A caller invokes getClassDoc(className).
GetClassDocCall(p, name) ==
  /\ calls[p].pc # "reading"
  /\ calls' = [calls EXCEPT ![p] = getClassDocBegin(name).call]
  /\ accessOrder' = getClassDocBegin(name).accessOrder
  /\ UNCHANGED <<cache, maxSize, histVars, serverVars, indexerVars, lastQuery>>

\* A document read that also writes the extracted kind and description
\* into the entity the index holds.
GetClassDocRead_enriching(p) ==
  /\ calls[p].pc = "reading"
  /\ \E readable \in BOOLEAN :
       IF readable
       THEN LET classDoc == extractClassInfo(calls[p].key, calls[p].path, FreshObj)
                r == CacheSet(cache, accessOrder, maxSize, calls[p].key, classDoc)
                enrich(c) == IF c.fullyQualifiedName = calls[p].key
                             THEN [c EXCEPT !.type = classDoc.type,
                                            !.description = Some(classDoc.description)]
                             ELSE c
            IN /\ cache' = r.cache
               /\ accessOrder' = r.accessOrder
               /\ calls' = [calls EXCEPT ![p].pc = "done", ![p].outcome = "doc",
                                         ![p].doc = classDoc, ![p].reads = 1,
                                         ![p].readOk = "ok"]
               /\ searchEngine' =
                    [searchEngine EXCEPT
                       !.classMap = [i \in 1..Len(@) |->
                                       [key |-> @[i].key, value |-> enrich(@[i].value)]],
                       !.classes = [i \in 1..Len(@) |-> enrich(@[i])]]
       ELSE /\ calls' = [calls EXCEPT ![p].pc = "done", ![p].outcome = "readError",
                                      ![p].reads = 1, ![p].readOk = "failed"]
            /\ UNCHANGED <<cache, accessOrder, searchEngine>>
  /\ UNCHANGED <<maxSize, histVars, serverVars, classDocParser, version, initPc, initFailed,
                 initOk, inventory, lastQuery>>

\* A document read that remembers its failure: it stores an empty document
\* under the key when the file cannot be read.
GetClassDocRead_memoizing(p) ==
  /\ calls[p].pc = "reading"
  /\ \E readable \in BOOLEAN :
       LET classDoc == IF readable
                       THEN extractClassInfo(calls[p].key, calls[p].path, FreshObj)
                       ELSE [NoDoc EXCEPT !.obj = FreshObj]
           r == CacheSet(cache, accessOrder, maxSize, calls[p].key, classDoc)
       IN /\ cache' = r.cache
          /\ accessOrder' = r.accessOrder
          /\ calls' = IF readable
                      THEN [calls EXCEPT ![p].pc = "done", ![p].outcome = "doc",
                                         ![p].doc = classDoc, ![p].reads = 1,
                                         ![p].readOk = "ok"]
                      ELSE [calls EXCEPT ![p].pc = "done", ![p].outcome = "readError",
                                         ![p].reads = 1, ![p].readOk = "failed"]
  /\ UNCHANGED <<maxSize, histVars, serverVars, indexerVars, lastQuery>>

\* parseClassDoc from the completion of fs.readFile: the read failed and the
\* error propagates, or the document is extracted, cached and returned.
GetClassDocRead(p) ==
  /\ calls[p].pc = "reading"
  /\ \E readable \in BOOLEAN :
       IF readable
       THEN LET classDoc == extractClassInfo(calls[p].key, calls[p].path, FreshObj)
                r == CacheSet(cache, accessOrder, maxSize, calls[p].key, classDoc)
            IN /\ cache' = r.cache
               /\ accessOrder' = r.accessOrder
               /\ calls' = [calls EXCEPT ![p].pc = "done", ![p].outcome = "doc",
                                         ![p].doc = classDoc, ![p].reads = 1,
                                         ![p].readOk = "ok"]
       ELSE /\ calls' = [calls EXCEPT ![p].pc = "done", ![p].outcome = "readError",
                                      ![p].reads = 1, ![p].readOk = "failed"]
            /\ UNCHANGED <<cache, accessOrder>>
  /\ UNCHANGED <<maxSize, histVars, serverVars, indexerVars, lastQuery>>

\* The outcome of a synchronous query method of the indexer:
\* ensureInitialized(), then the call on this.searchEngine.
Answer(op, args, results) ==
  IF ensureInitialized(searchEngine, classDocParser)
  THEN [op |-> op, outcome |-> "notInitialized", options |-> args, results |-> <<>>]
  ELSE IF searchEngine.isNull
  THEN [op |-> op, outcome |-> "TypeError", options |-> args, results |-> <<>>]
  ELSE [op |-> op, outcome |-> "ok", options |-> args, results |-> results]

Ready == ~ensureInitialized(searchEngine, classDocParser) /\ ~searchEngine.isNull

\* DocumentationIndexer.searchClasses
SearchClasses ==
  /\ \E options \in {[limit |-> NoNumber, type |-> NoString, package |-> NoString]},
        ranked \in RankedUpTo(IF Ready THEN Len(searchEngine.classes) ELSE 0, 1) :
       lastQuery' = Answer("searchClasses", options,
                           IF Ready THEN searchClasses(searchEngine, ranked, options)
                           ELSE <<>>)
  /\ UNCHANGED <<cacheVars, histVars, serverVars, indexerVars, calls>>

\* DocumentationIndexer.searchMethods
SearchMethods ==
  /\ \E options \in {[limit |-> NoNumber, className |-> NoString,
                      returnType |-> NoString]},
        ranked \in RankedUpTo(IF Ready THEN Len(searchEngine.methods) ELSE 0, 1) :
       lastQuery' = Answer("searchMethods", options,
                           IF Ready THEN searchMethods(searchEngine, ranked, options)
                           ELSE <<>>)
  /\ UNCHANGED <<cacheVars, histVars, serverVars, indexerVars, calls>>

\* DocumentationIndexer.searchPackages
SearchPackages ==
  /\ \E limit \in {NoNumber},
        ranked \in RankedUpTo(IF Ready THEN Len(searchEngine.packages) ELSE 0, 1) :
       lastQuery' = Answer("searchPackages", limit,
                           IF Ready THEN searchPackages(searchEngine, ranked, limit)
                           ELSE <<>>)
  /\ UNCHANGED <<cacheVars, histVars, serverVars, indexerVars, calls>>

\* DocumentationIndexer.findPackagesByTask
FindPackagesByTask ==
  /\ \E task \in {"data access", "printing"} :
       lastQuery' = Answer("findPackagesByTask", task,
                           IF Ready THEN findPackagesByTask(searchEngine, task)
                           ELSE <<>>)
  /\ UNCHANGED <<cacheVars, histVars, serverVars, indexerVars, calls>>

\* DocumentationIndexer.getStats
GetStats ==
  /\ lastQuery' = Answer("getStats", <<>>,
                         IF Ready THEN <<getStats(searchEngine)>> ELSE <<>>)
  /\ UNCHANGED <<cacheVars, histVars, serverVars, indexerVars, calls>>

NextIndexer ==
  \/ InitializeCall
  \/ InitializeFinish
  \/ \E p \in DOMAIN calls, name \in RequestedNames : GetClassDocCall(p, name)
  \/ \E p \in DOMAIN calls : GetClassDocRead(p)
  \/ SearchClasses
  \/ SearchMethods
  \/ SearchPackages
  \/ FindPackagesByTask
  \/ GetStats

SpecIndexer == InitIndexer /\ [][NextIndexer]_vars

----------------------------------------------------------------------------
(* Specification SpecDetail: the initialized indexer of a running server
   (main awaits initialize() before it serves), with getClassDoc() calls of
   several callers interleaving at their document reads *)

InitDetail ==
  /\ \E n \in 1..MaxCapacity :
       /\ maxSize = CacheNew(n).maxSize
       /\ cache = CacheNew(n).cache
       /\ accessOrder = CacheNew(n).accessOrder
  /\ touched = <<>>
  /\ lastOp = NoOp
  /\ FreshServer
  /\ LET r == initialize(GoodFile, NullEngine, NullParser, NoString)
     IN /\ searchEngine = r.searchEngine
        /\ classDocParser = r.classDocParser
        /\ version = r.version
        /\ initOk = r.ok
  /\ inventory = Corpus
  /\ initPc = "idle"
  /\ initFailed = FALSE
  /\ lastQuery = NoQuery
  /\ calls = [p \in Callers |-> IdleCall]

NextDetail ==
  \/ \E p \in DOMAIN calls, name \in RequestedNames : GetClassDocCall(p, name)
  \/ \E p \in DOMAIN calls : GetClassDocRead(p)

SpecDetail == InitDetail /\ [][NextDetail]_vars

----------------------------------------------------------------------------
(* Specification SpecInventory: a SearchEngine over the snapshot of an index
   built from one of several small inventories, answering lookups and
   searches *)

\* One entity, with two overloads of a method, a field, and a member whose
\* owning class is not in the type inventory.
WidgetInventory ==
  [types |-> << [p |-> "", l |-> "All Classes and Interfaces"],
                [p |-> "com.x.y", l |-> "Widget"] >>,
   members |-> << [p |-> "com.x.y", c |-> "Widget", l |-> "render()", u |-> ""],
                  [p |-> "com.x.y", c |-> "Widget", l |-> "render(String)",
                   u |-> "render(java.lang.String)"],
                  [p |-> "com.x.y", c |-> "Widget", l |-> "SIZE", u |-> ""],
                  [p |-> "com.x.y", c |-> "Ghost", l |-> "run()", u |-> ""] >>,
   packages |-> << [l |-> "All Packages"], [l |-> "com.x.y"] >>,
   categoriesByTask |-> << [key |-> "ui", value |-> <<"com.x.y.Widget">>] >>]

\* One category with one entity.
CheckerInventory ==
  [types |-> << [p |-> "com.x", l |-> "Checker"] >>,
   members |-> << [p |-> "com.x", c |-> "Checker", l |-> "check(Object)", u |-> ""] >>,
   packages |-> << [l |-> "All Packages"], [l |-> "com.x"] >>,
   categoriesByTask |-> << [key |-> "validation", value |-> <<"com.x.Checker">>] >>]

\* One simple name shared by three packages; two categories that overlap.
SharedNameInventory ==
  [types |-> << [p |-> "com.a", l |-> "X"], [p |-> "com.b", l |-> "X"],
                [p |-> "com.c", l |-> "X"] >>,
   members |-> << [p |-> "com.a", c |-> "X", l |-> "get()", u |-> ""],
                  [p |-> "com.b", c |-> "X", l |-> "get()", u |-> ""] >>,
   packages |-> << [l |-> "All Packages"], [l |-> "com.a"], [l |-> "com.b"],
                   [l |-> "com.c"] >>,
   categoriesByTask |-> << [key |-> "data", value |-> <<"com.a.X", "com.b.X">>],
                           [key |-> "data access", value |-> <<"com.a.X">>] >>]

\* A nested class, whose simple name contains a dot (javadoc labels nested
\* classes Outer.Inner), beside a class whose fully-qualified name is that
\* simple name; in both inventory orders.
NestedInventory ==
  [types |-> << [p |-> "b", l |-> "C"], [p |-> "a", l |-> "b.C"] >>,
   members |-> << [p |-> "b", c |-> "C", l |-> "run()", u |-> ""] >>,
   packages |-> << [l |-> "All Packages"], [l |-> "a"], [l |-> "b"] >>,
   categoriesByTask |-> << [key |-> "nesting", value |-> <<"b.C">>] >>]

NestedFirstInventory ==
  [NestedInventory EXCEPT !.types = << [p |-> "a", l |-> "b.C"], [p |-> "b", l |-> "C"] >>]

Inventories ==
  {WidgetInventory, CheckerInventory, SharedNameInventory, NestedInventory,
   NestedFirstInventory}

\* The return types an index.json may carry on its method entries
\* (MethodSearchEntry.returnType is optional), by signature.
ReturnTypes ==
  << [key |-> "render()", value |-> "void"],
     [key |-> "render(java.lang.String)", value |-> "java.lang.String"],
     [key |-> "get()", value |-> "String"] >>

\* A snapshot whose method entries carry the return types of ReturnTypes.
WithReturnTypes(index) ==
  [index EXCEPT !.methods =
     [i \in 1..Len(index.methods) |->
        [key |-> index.methods[i].key,
         value |-> [j \in 1..Len(index.methods[i].value) |->
                      LET m == index.methods[i].value[j]
                      IN IF OHas(ReturnTypes, m.signature)
                         THEN [m EXCEPT !.returnType = Some(OGet(ReturnTypes, m.signature))]
                         ELSE m]]]]

\* The ranked match lists of Fuse over a collection: items that are equal
\* in every field get the same score, so they match together or not at all.
ScoredLists(collection) ==
  {r \in RankedLists(Len(collection)) :
     \A i \in Range(r), j \in 1..Len(collection) :
       collection[j] = collection[i] => j \in Range(r)}

\* The fully-qualified name of an inventory record.
FqnOf(entry) == entry.p \o "." \o entry.l

\* The entity records of the type inventory: those with a package.
Entities(inv) == SelectSeq(inv.types, LAMBDA e : TruthyString(e.p))

\* The names looked up: every fully-qualified name, every simple name,
\* and a name that is neither.
LookupNames(inv) ==
  {FqnOf(e) : e \in Range(Entities(inv))} \cup {e.l : e \in Range(Entities(inv))}
    \cup {"NoSuchClass"}

InvClassOptions ==
  [limit : {NoNumber, Some(MaxLimit)},
   type : {NoString, Some("class")},
   package : {NoString, Some("com.a"), Some("com.x.y")}]

InvMethodOptions ==
  [limit : {NoNumber},
   className : {NoString, Some(""), Some("WIDGET"), Some("com.b")},
   returnType : {NoString, Some(""), Some("STRING")}]

InvTasks == {"validation", "Data", "DATA ACCESS", "ui", "nesting", "printing"}

InitInventory ==
  /\ inventory \in Inventories
  /\ \E index \in {buildIndexOf(inventory), WithReturnTypes(buildIndexOf(inventory))} :
       searchEngine = NewSearchEngine(index)
  /\ classDocParser = NewClassDocParser(ZipPath)
  /\ version = Some(CorpusVersion)
  /\ initPc = "idle"
  /\ initFailed = FALSE
  /\ initOk = TRUE
  /\ calls = [p \in {} |-> IdleCall]
  /\ lastQuery = NoQuery
  /\ maxSize = CacheNew(MaxCapacity).maxSize
  /\ cache = CacheNew(MaxCapacity).cache
  /\ accessOrder = CacheNew(MaxCapacity).accessOrder
  /\ touched = <<>>
  /\ lastOp = NoOp
  /\ FreshServer

\* SearchEngine.getClass(className)
InvGetClass ==
  \E name \in LookupNames(inventory) :
    /\ lastQuery' = [op |-> "getClass", outcome |-> "ok", options |-> name,
                     ranked |-> <<>>,
                     results |-> <<getClass(searchEngine, name)>>]
    /\ UNCHANGED <<cacheVars, histVars, serverVars, indexerVars, calls>>

\* SearchEngine.searchClasses(query, options)
InvSearchClasses ==
  \E options \in InvClassOptions, ranked \in ScoredLists(searchEngine.classes) :
    /\ lastQuery' = [op |-> "searchClasses", outcome |-> "ok", options |-> options,
                     ranked |-> ranked,
                     results |-> searchClasses(searchEngine, ranked, options)]
    /\ UNCHANGED <<cacheVars, histVars, serverVars, indexerVars, calls>>

\* SearchEngine.searchMethods(methodName, options)
InvSearchMethods ==
  \E options \in InvMethodOptions, ranked \in ScoredLists(searchEngine.methods) :
    /\ lastQuery' = [op |-> "searchMethods", outcome |-> "ok", options |-> options,
                     ranked |-> ranked,
                     results |-> searchMethods(searchEngine, ranked, options)]
    /\ UNCHANGED <<cacheVars, histVars, serverVars, indexerVars, calls>>

\* SearchEngine.searchPackages(query)
InvSearchPackages ==
  \E ranked \in ScoredLists(searchEngine.packages) :
    /\ lastQuery' = [op |-> "searchPackages", outcome |-> "ok", options |-> NoNumber,
                     ranked |-> ranked,
                     results |-> searchPackages(searchEngine, ranked, NoNumber)]
    /\ UNCHANGED <<cacheVars, histVars, serverVars, indexerVars, calls>>

\* SearchEngine.findPackagesByTask(task)
InvFindPackagesByTask ==
  \E task \in InvTasks :
    /\ lastQuery' = [op |-> "findPackagesByTask", outcome |-> "ok", options |-> task,
                     ranked |-> <<>>,
                     results |-> findPackagesByTask(searchEngine, task)]
    /\ UNCHANGED <<cacheVars, histVars, serverVars, indexerVars, calls>>

NextInventory ==
  \/ InvGetClass
  \/ InvSearchClasses
  \/ InvSearchMethods
  \/ InvSearchPackages
  \/ InvFindPackagesByTask

SpecInventory == InitInventory /\ [][NextInventory]_vars

----------------------------------------------------------------------------
(* Tool handlers: handleSearchClass, handleGetClassDoc, handleSearchMethod,
   handleFindPackage *)

\* The `arguments` of a tools/call request, as far as the required
\* parameter goes: no arguments object at all, or an object whose required
\* parameter is absent, empty or a text.
NoArgs == [given |-> FALSE, required |-> NoString]
ArgsOf(required) == [given |-> TRUE, required |-> required]

HandlerLimit == 10   \* const { ..., limit = 10 } = args

\* `const { query, ... } = args; if (!query) throw new McpError(InvalidParams)`:
\* destructuring undefined throws a TypeError, a falsy parameter is rejected.
checkRequired(args) ==
  IF ~args.given THEN "TypeError"
  ELSE IF ~(args.required.has /\ TruthyString(args.required.val)) THEN "InvalidParams"
  ELSE "ok"

\* The handler ends before it calls the indexer.
Rejected(tool, args, message) ==
  [pc |-> "done", tool |-> tool, args |-> args, outcome |-> checkRequired(args),
   message |-> IF checkRequired(args) = "InvalidParams" THEN message ELSE "",
   core |-> <<>>]

\* The handler called the indexer operation op with `query` and returns
\* what it answered, or lets its error propagate.
Delegated(tool, args, op, answer) ==
  [pc |-> "done", tool |-> tool, args |-> args,
   outcome |-> IF answer.outcome = "ok" THEN "result" ELSE answer.outcome,
   message |-> "",
   core |-> <<[op |-> op, query |-> args.required.val]>>]

\* handleGetClassDoc after `await indexer.getClassDoc(...)`: null becomes
\* InvalidParams 'Class not found', a document is rendered, an error propagates.
afterGetClassDoc(args, call) ==
  [pc |-> "done", tool |-> "get_ebx_class_doc", args |-> args,
   outcome |-> IF call.outcome = "null" THEN "InvalidParams"
               ELSE IF call.outcome = "doc" THEN "result"
               ELSE call.outcome,
   message |-> IF call.outcome = "null"
               THEN "Class not found: " \o args.required.val ELSE "",
   core |-> <<[op |-> "getClassDoc", query |-> args.required.val]>>]

HandleSearchClass(p, args) ==
  /\ toolCalls[p].pc # "awaiting"
  /\ IF checkRequired(args) # "ok"
     THEN /\ toolCalls' = [toolCalls EXCEPT ![p] =
                 Rejected("search_ebx_class", args, "query parameter is required")]
          /\ UNCHANGED lastQuery
     ELSE \E ranked \in RankedUpTo(IF Ready THEN Len(searchEngine.classes) ELSE 0, 1) :
            LET options == [limit |-> Some(HandlerLimit), type |-> NoString,
                            package |-> NoString]
                answer == Answer("searchClasses", options,
                                 IF Ready THEN searchClasses(searchEngine, ranked, options)
                                 ELSE <<>>)
            IN /\ lastQuery' = answer
               /\ toolCalls' = [toolCalls EXCEPT ![p] =
                      Delegated("search_ebx_class", args, "searchClasses", answer)]
  /\ UNCHANGED <<cacheVars, histVars, indexerVars, calls, activeTransport, sse,
                 lastResponse>>

HandleSearchMethod(p, args) ==
  /\ toolCalls[p].pc # "awaiting"
  /\ IF checkRequired(args) # "ok"
     THEN /\ toolCalls' = [toolCalls EXCEPT ![p] =
                 Rejected("search_ebx_method", args, "methodName parameter is required")]
          /\ UNCHANGED lastQuery
     ELSE \E ranked \in RankedUpTo(IF Ready THEN Len(searchEngine.methods) ELSE 0, 1) :
            LET options == [limit |-> Some(HandlerLimit), className |-> NoString,
                            returnType |-> NoString]
                answer == Answer("searchMethods", options,
                                 IF Ready THEN searchMethods(searchEngine, ranked, options)
                                 ELSE <<>>)
            IN /\ lastQuery' = answer
               /\ toolCalls' = [toolCalls EXCEPT ![p] =
                      Delegated("search_ebx_method", args, "searchMethods", answer)]
  /\ UNCHANGED <<cacheVars, histVars, indexerVars, calls, activeTransport, sse,
                 lastResponse>>

HandleFindPackage(p, args) ==
  /\ toolCalls[p].pc # "awaiting"
  /\ IF checkRequired(args) # "ok"
     THEN /\ toolCalls' = [toolCalls EXCEPT ![p] =
                 Rejected("find_ebx_package", args, "task parameter is required")]
          /\ UNCHANGED lastQuery
     ELSE LET answer == Answer("findPackagesByTask", args.required.val,
                               IF Ready
                               THEN findPackagesByTask(searchEngine, args.required.val)
                               ELSE <<>>)
          IN /\ lastQuery' = answer
             /\ toolCalls' = [toolCalls EXCEPT ![p] =
                    Delegated("find_ebx_package", args, "findPackagesByTask", answer)]
  /\ UNCHANGED <<cacheVars, histVars, indexerVars, calls, activeTransport, sse,
                 lastResponse>>

\* handleGetClassDoc up to its end or to the document read of getClassDoc
HandleGetClassDoc(p, args) ==
  /\ toolCalls[p].pc # "awaiting"
  /\ IF checkRequired(args) # "ok"
     THEN /\ toolCalls' = [toolCalls EXCEPT ![p] =
                 Rejected("get_ebx_class_doc", args, "className parameter is required")]
          /\ UNCHANGED <<calls, accessOrder>>
     ELSE LET begun == getClassDocBegin(args.required.val)
          IN /\ calls' = [calls EXCEPT ![p] = begun.call]
             /\ accessOrder' = begun.accessOrder
             /\ toolCalls' = [toolCalls EXCEPT ![p] =
                    IF begun.call.pc = "reading"
                    THEN [afterGetClassDoc(args, begun.call) EXCEPT
                            !.pc = "awaiting", !.outcome = "none"]
                    ELSE afterGetClassDoc(args, begun.call)]
  /\ UNCHANGED <<cache, maxSize, histVars, indexerVars, lastQuery, activeTransport,
                 sse, lastResponse>>

\* handleGetClassDoc from the completion of getClassDoc on
HandleGetClassDocResume(p) ==
  /\ toolCalls[p].pc = "awaiting"
  /\ calls[p].pc = "done"
  /\ toolCalls' = [toolCalls EXCEPT ![p] = afterGetClassDoc(toolCalls[p].args, calls[p])]
  /\ UNCHANGED <<cacheVars, histVars, indexerVars, calls, lastQuery, activeTransport,
                 sse, lastResponse>>

----------------------------------------------------------------------------
(* Specification SpecTools: the tool handlers of a running server (main
   awaits initialize() before it connects a transport), called by one
   client *)

ToolArguments ==
  {NoArgs} \cup {ArgsOf(r) : r \in {NoString, Some(""), Some("Adaptation"),
                                    Some("NoSuchClass"), Some("data access")}}

InitTools ==
  /\ \E n \in 1..MaxCapacity :
       /\ maxSize = CacheNew(n).maxSize
       /\ cache = CacheNew(n).cache
       /\ accessOrder = CacheNew(n).accessOrder
  /\ touched = <<>>
  /\ lastOp = NoOp
  /\ LET r == initialize(GoodFile, NullEngine, NullParser, NoString)
     IN /\ searchEngine = r.searchEngine
        /\ classDocParser = r.classDocParser
        /\ version = r.version
        /\ initOk = r.ok
  /\ inventory = Corpus
  /\ initPc = "idle"
  /\ initFailed = FALSE
  /\ lastQuery = NoQuery
  /\ calls = [p \in {"c1"} |-> IdleCall]
  /\ toolCalls = [p \in {"c1"} |-> NoToolCall]
  /\ activeTransport = 0
  /\ sse = [c \in Connections |-> "none"]
  /\ lastResponse = 0

ToolsRead(p) ==
  /\ toolCalls[p].pc = "awaiting"
  /\ GetClassDocRead(p)

NextTools ==
  \/ \E p \in DOMAIN toolCalls, args \in ToolArguments : HandleSearchClass(p, args)
  \/ \E p \in DOMAIN toolCalls, args \in ToolArguments : HandleSearchMethod(p, args)
  \/ \E p \in DOMAIN toolCalls, args \in ToolArguments : HandleFindPackage(p, args)
  \/ \E p \in DOMAIN toolCalls, args \in ToolArguments : HandleGetClassDoc(p, args)
  \/ \E p \in DOMAIN toolCalls : ToolsRead(p)
  \/ \E p \in DOMAIN toolCalls : HandleGetClassDocResume(p)

SpecTools == InitTools /\ [][NextTools]_vars

----------------------------------------------------------------------------
(* Specification SpecRoots: two ClassDocParser instances constructed over
   different document roots, each used by one caller, with the detail
   cache of the module *)

\* A second document root, holding documents for the same entities.
OtherRoot == "fixtures/javadoc"

OtherDocuments ==
  << [key |-> "com/onwbp/adaptation/Adaptation.html",
      value |-> Document("public class Adaptation", "A stand-in.",
                         <<>>, <<>>, <<>>)],
     [key |-> "com/orchestranetworks/schema/PathAccessException.html",
      value |-> Document("public class PathAccessException",
                         "A stand-in exception.", <<>>, <<>>, <<>>)] >>

\* fs.readFile(path.join(this.javadocRoot, htmlPath))
DocumentsAt(javadocRoot) == IF javadocRoot = OtherRoot THEN OtherDocuments ELSE Documents

\* The parser each caller holds.
ParserOf(p) ==
  IF p = "c1" THEN NewClassDocParser(ZipPath) ELSE NewClassDocParser(OtherRoot)

\* The (fullyQualifiedName, htmlPath) pairs of the entities of the index.
ParseTargets ==
  {[fqn |-> c.fullyQualifiedName, path |-> c.htmlPath] :
     c \in Range(NewSearchEngine(buildIndex).classes)}

InitRoots ==
  /\ \E n \in 1..MaxCapacity :
       /\ maxSize = CacheNew(n).maxSize
       /\ cache = CacheNew(n).cache
       /\ accessOrder = CacheNew(n).accessOrder
  /\ touched = <<>>
  /\ lastOp = NoOp
  /\ FreshServer
  /\ FreshIndexer
  /\ calls = [p \in Callers |-> IdleCall]

\* parseClassDoc(fullyQualifiedName, htmlPath) on the parser of p, up to its
\* return from the cache or to `await fs.readFile(fullPath)`
ParseClassDocCall(p, target) ==
  /\ calls[p].pc # "reading"
  /\ LET cached == CacheGet(cache, accessOrder, target.fqn)
     IN /\ accessOrder' = cached.accessOrder
        /\ calls' = [calls EXCEPT ![p] =
               IF cached.hit
               THEN [IdleCall EXCEPT !.pc = "done", !.name = target.fqn,
                                     !.key = target.fqn, !.path = target.path,
                                     !.outcome = "doc", !.doc = cache[target.fqn]]
               ELSE [IdleCall EXCEPT !.pc = "reading", !.name = target.fqn,
                                     !.key = target.fqn, !.path = target.path]]
  /\ UNCHANGED <<cache, maxSize, histVars, serverVars, indexerVars, lastQuery>>

\* parseClassDoc on the parser of p from the completion of fs.readFile
ParseClassDocRead(p) ==
  /\ calls[p].pc = "reading"
  /\ \E readable \in BOOLEAN :
       IF readable
       THEN LET document == OGet(DocumentsAt(ParserOf(p).javadocRoot), calls[p].path)
                classDoc == extractClassInfoOf(document, calls[p].key, calls[p].path,
                                               FreshObj)
                r == CacheSet(cache, accessOrder, maxSize, calls[p].key, classDoc)
            IN /\ cache' = r.cache
               /\ accessOrder' = r.accessOrder
               /\ calls' = [calls EXCEPT ![p].pc = "done", ![p].outcome = "doc",
                                         ![p].doc = classDoc, ![p].reads = 1,
                                         ![p].readOk = "ok"]
       ELSE /\ calls' = [calls EXCEPT ![p].pc = "done", ![p].outcome = "readError",
                                      ![p].reads = 1, ![p].readOk = "failed"]
            /\ UNCHANGED <<cache, accessOrder>>
  /\ UNCHANGED <<maxSize, histVars, serverVars, indexerVars, lastQuery>>

NextRoots ==
  \/ \E p \in DOMAIN calls, target \in ParseTargets : ParseClassDocCall(p, target)
  \/ \E p \in DOMAIN calls : ParseClassDocRead(p)

SpecRoots == InitRoots /\ [][NextRoots]_vars

----------------------------------------------------------------------------
(* Specification SpecExtract: parseClassDoc on one entity whose document
   is any of a family of class documents *)

Anchor(text, href) == [text |-> text, href |-> href]

TypeSignatures ==
  {"public interface Widget extends Base",
   "public class Widget extends com.x.Base implements Runnable, Base",
   "public class Widget implements a.Runnable, b.Runnable",
   "public enum Widget",
   "public @interface Widget",
   "public class WidgetException extends Exception",
   "public final class Widget"}

SuperNotes ==
  {<<>>,
   <<Anchor("Base", "Base.html")>>,
   <<Anchor("Base", "Base.html"), Anchor("Comparable", "https://docs/Comparable.html")>>,
   <<Anchor("Base", "../a/Base.html"), Anchor("Base", "../b/Base.html")>>}

ImplNotes ==
  {<<>>,
   <<Anchor("Runnable", "Runnable.html")>>,
   <<Anchor("Impl", "../a/Impl.html"), Anchor("Impl", "../b/Impl.html")>>}

DetailSections ==
  {<<>>,
   <<GetStringSection>>,
   <<Section("run", <<Span("modifiers", "public "), Span("return-type", "void"),
                      Span("", " "), Span("element-name", "run"), Span("", "()")>>)>>,
   <<Section("Widget", <<Span("modifiers", "public "), Span("element-name", "Widget"),
                         Span("", "()")>>),
     Section(" ", <<Span("return-type", "int"), Span("", " "),
                    Span("element-name", "size"), Span("", "()")>>)>>}

ExtractDocuments ==
  {Document(s, "A widget.", n, m, d) :
     s \in TypeSignatures, n \in SuperNotes, m \in ImplNotes, d \in DetailSections}

WidgetTarget == [fqn |-> "com.x.Widget", path |-> "com/x/Widget.html"]

InitExtract ==
  /\ \E n \in 1..MaxCapacity :
       /\ maxSize = CacheNew(n).maxSize
       /\ cache = CacheNew(n).cache
       /\ accessOrder = CacheNew(n).accessOrder
  /\ touched = <<>>
  /\ lastOp = NoOp
  /\ FreshServer
  /\ FreshIndexer
  /\ calls = [p \in {"c1"} |-> IdleCall]

\* parseClassDoc from the completion of fs.readFile, for any document the
\* file may hold; lastQuery keeps the document that was read.
ParseAnyDocument(p) ==
  /\ calls[p].pc = "reading"
  /\ \E document \in ExtractDocuments :
       LET classDoc == extractClassInfoOf(document, calls[p].key, calls[p].path,
                                          FreshObj)
           r == CacheSet(cache, accessOrder, maxSize, calls[p].key, classDoc)
       IN /\ cache' = r.cache
          /\ accessOrder' = r.accessOrder
          /\ calls' = [calls EXCEPT ![p].pc = "done", ![p].outcome = "doc",
                                    ![p].doc = classDoc, ![p].reads = 1,
                                    ![p].readOk = "ok"]
          /\ lastQuery' = [op |-> "readFile", outcome |-> "ok",
                           options |-> calls[p].path, results |-> <<document>>]
  /\ UNCHANGED <<maxSize, histVars, serverVars, indexerVars>>

NextExtract ==
  \/ \E p \in DOMAIN calls : ParseClassDocCall(p, WidgetTarget)
  \/ \E p \in DOMAIN calls : ParseAnyDocument(p)

SpecExtract == InitExtract /\ [][NextExtract]_vars

----------------------------------------------------------------------------
(* Specification SpecSnapshot: a SearchEngine loaded from the snapshot
   buildIndex wrote for an inventory, answering lookups, method searches
   and task queries *)

\* An entity with a method named __proto__ (a legal Java identifier).
ProtoInventory ==
  [types |-> << [p |-> "com.x", l |-> "Checker"] >>,
   members |-> << [p |-> "com.x", c |-> "Checker", l |-> "check(Object)", u |-> ""],
                  [p |-> "com.x", c |-> "Checker", l |-> "__proto__()", u |-> ""] >>,
   packages |-> << [l |-> "All Packages"], [l |-> "com.x"] >>,
   categoriesByTask |-> << [key |-> "validation", value |-> <<"com.x.Checker">>] >>]

SnapshotInventories == {WidgetInventory, CheckerInventory, ProtoInventory}

\* A SearchEngine over the maps as they are before serialization.
EngineOverMaps(inv) ==
  LET maps == builtMapsOf(inv)
  IN NewSearchEngine([version |-> CorpusVersion, classes |-> maps.classMap,
                      methods |-> maps.methodMap, packages |-> maps.packageMap,
                      categoriesByTask |-> maps.categoriesByTask])

InitSnapshot ==
  /\ inventory \in SnapshotInventories
  /\ searchEngine = NewSearchEngine(buildIndexOf(inventory))
  /\ classDocParser = NewClassDocParser(ZipPath)
  /\ version = Some(CorpusVersion)
  /\ initPc = "idle"
  /\ initFailed = FALSE
  /\ initOk = TRUE
  /\ calls = [p \in {} |-> IdleCall]
  /\ lastQuery = NoQuery
  /\ maxSize = CacheNew(MaxCapacity).maxSize
  /\ cache = CacheNew(MaxCapacity).cache
  /\ accessOrder = CacheNew(MaxCapacity).accessOrder
  /\ touched = <<>>
  /\ lastOp = NoOp
  /\ FreshServer

NextSnapshot ==
  \/ InvGetClass
  \/ InvSearchMethods
  \/ InvFindPackagesByTask

SpecSnapshot == InitSnapshot /\ [][NextSnapshot]_vars

----------------------------------------------------------------------------
(* Specification SpecHttp: the HTTP/SSE mode of main: GET /sse requests,
   their client disconnects, and POST /message requests *)

\* The connection is established and the client has not closed it.
IsOpen(c) == sse[c] \in {"connecting", "open"}

\* GET /sse up to `await server.connect(activeTransport)`
SseOpen(c) ==
  /\ sse[c] \in {"none", "closed"}
  /\ activeTransport' = c
  /\ sse' = [sse EXCEPT ![c] = "connecting"]
  /\ UNCHANGED <<cacheVars, histVars, indexerVars, calls, lastQuery, toolCalls,
                 lastResponse>>

\* GET /sse after server.connect: req.on('close', ...) is registered. When
\* the client has closed already, the event is past and the listener never
\* runs.
SseConnected(c) ==
  /\ sse[c] \in {"connecting", "closedEarly"}
  /\ sse' = [sse EXCEPT ![c] = IF sse[c] = "connecting" THEN "open" ELSE "closed"]
  /\ UNCHANGED <<cacheVars, histVars, indexerVars, calls, lastQuery, toolCalls,
                 activeTransport, lastResponse>>

\* The client of connection c disconnects: the 'close' listener, when
\* registered, sets activeTransport = null.
SseClose(c) ==
  /\ IsOpen(c)
  /\ IF sse[c] = "open"
     THEN /\ activeTransport' = 0
          /\ sse' = [sse EXCEPT ![c] = "closed"]
     ELSE /\ sse' = [sse EXCEPT ![c] = "closedEarly"]
          /\ UNCHANGED activeTransport
  /\ UNCHANGED <<cacheVars, histVars, indexerVars, calls, lastQuery, toolCalls,
                 lastResponse>>

NoConnectionStatus == 503   \* res.writeHead(503, ...)
AcceptedStatus == 202       \* res.writeHead(202, ...)

\* POST /message
PostMessage ==
  /\ lastResponse' = IF activeTransport = 0 THEN NoConnectionStatus ELSE AcceptedStatus
  /\ UNCHANGED <<cacheVars, histVars, indexerVars, calls, lastQuery, toolCalls,
                 activeTransport, sse>>

InitHttp ==
  /\ maxSize = CacheNew(MaxCapacity).maxSize
  /\ cache = CacheNew(MaxCapacity).cache
  /\ accessOrder = CacheNew(MaxCapacity).accessOrder
  /\ touched = <<>>
  /\ lastOp = NoOp
  /\ FreshServer
  /\ LET r == initialize(GoodFile, NullEngine, NullParser, NoString)
     IN /\ searchEngine = r.searchEngine
        /\ classDocParser = r.classDocParser
        /\ version = r.version
        /\ initOk = r.ok
  /\ inventory = Corpus
  /\ initPc = "idle"
  /\ initFailed = FALSE
  /\ lastQuery = NoQuery
  /\ calls = [p \in {} |-> IdleCall]

NextHttp ==
  \/ \E c \in Connections : SseOpen(c)
  \/ \E c \in Connections : SseConnected(c)
  \/ \E c \in Connections : SseClose(c)
  \/ PostMessage

SpecHttp == InitHttp /\ [][NextHttp]_vars

----------------------------------------------------------------------------
(* C1: when set(k, v) is called with k not cached while the cache holds
   maxSize keys, exactly one key is removed, namely the key whose most
   recent access (a set, or a get that hit) is the oldest, and every other
   previously cached key stays cached. *)
C1_EvictsExactlyTheOldest ==
  (lastOp.op = "set" /\ ~lastOp.hit /\ Cardinality(lastOp.preKeys) = maxSize)
    => DOMAIN cache = (lastOp.preKeys \ {lastOp.oldest}) \cup {lastOp.key}

(* C2: the number of cached entries never exceeds the capacity, over
   arbitrary string keys, the empty string included. *)
C2_SizeNeverExceedsCapacity == Cardinality(DOMAIN cache) <= maxSize

(* C3: on an initialized indexer, getClassDoc(name) for a name that is no
   key of the class map resolves to null, reads no document, and leaves
   the cache contents and the recency order untouched. *)
C3_UnknownNameIsNotFound ==
  [][\A p \in DOMAIN calls :
       (/\ calls[p].pc # "reading"
        /\ calls'[p] # calls[p]
        /\ ~searchEngine.isNull /\ ~classDocParser.isNull
        /\ ~OHas(searchEngine.classMap, calls'[p].name))
       => (/\ calls'[p].pc = "done"
           /\ calls'[p].outcome = "null"
           /\ calls'[p].reads = 0
           /\ cache' = cache
           /\ accessOrder' = accessOrder)]_vars

\* An unknown name was answered null while the cache held two documents.
C3_Witness ==
  \E p \in DOMAIN calls :
    /\ calls[p].pc = "done"
    /\ calls[p].name = "NoSuchClass"
    /\ calls[p].outcome = "null"
    /\ calls[p].reads = 0
    /\ Len(accessOrder) = 2
    /\ Cardinality(DOMAIN cache) = 2

(* C4: a getClassDoc call whose document read fails resolves to null
   instead of raising an error. *)
C4_ReadFailureIsNotFound ==
  \A p \in DOMAIN calls :
    (calls[p].pc = "done" /\ calls[p].readOk = "failed")
      => calls[p].outcome = "null"

(* C5: with getClassDoc calls of several callers interleaving at their
   document reads, the cache is never corrupted: it holds at most maxSize
   entries, the recency order lists exactly the cached keys, each once,
   every cached value is the document of its own key, and every document
   returned is the document of the class the requested name resolves to. *)
C5_CacheNeverCorrupted ==
  /\ Cardinality(DOMAIN cache) <= maxSize
  /\ NoDuplicates(accessOrder)
  /\ Range(accessOrder) = DOMAIN cache
  /\ \A k \in DOMAIN cache :
       /\ cache[k].fullyQualifiedName = k
       /\ \E c \in Range(OValues(searchEngine.classMap)) :
            c.fullyQualifiedName = k /\ c.htmlPath = cache[k].htmlPath
  /\ \A p \in DOMAIN calls :
       (calls[p].pc = "done" /\ calls[p].outcome = "doc")
         => LET c == OGet(searchEngine.classMap, calls[p].name)
            IN /\ calls[p].doc.fullyQualifiedName = c.fullyQualifiedName
               /\ calls[p].doc.htmlPath = c.htmlPath

\* Two callers missed on the same key in a cache that never evicts it, and
\* each extracted and stored its own object: their reads overlapped.
C5_Witness ==
  \E p, q \in DOMAIN calls :
    /\ p # q
    /\ maxSize = 2
    /\ calls[p].pc = "done" /\ calls[q].pc = "done"
    /\ calls[p].outcome = "doc" /\ calls[q].outcome = "doc"
    /\ calls[p].key = calls[q].key
    /\ calls[p].reads = 1 /\ calls[q].reads = 1
    /\ calls[p].doc.obj # calls[q].doc.obj
    /\ cache[calls[p].key].obj = calls[q].doc.obj

(* C6: once a document is cached under a key and until that key is
   evicted, a getClassDoc call resolving to that key returns the identical
   cached object and reads no document. *)
C6_CachedKeyIsServedFromCache ==
  [][\A p \in DOMAIN calls :
       (/\ calls[p].pc # "reading"
        /\ calls'[p] # calls[p]
        /\ calls'[p].key \in DOMAIN cache)
       => (/\ calls'[p].pc = "done"
           /\ calls'[p].outcome = "doc"
           /\ calls'[p].doc = cache[calls'[p].key]
           /\ calls'[p].reads = 0)]_vars

\* One caller extracted a document and another was then handed the same
\* object without a read.
C6_Witness ==
  \E p, q \in DOMAIN calls :
    /\ p # q
    /\ calls[p].pc = "done" /\ calls[p].outcome = "doc" /\ calls[p].reads = 1
    /\ calls[q].pc = "done" /\ calls[q].outcome = "doc" /\ calls[q].reads = 0
    /\ calls[q].doc.obj = calls[p].doc.obj
    /\ calls[q].key = calls[p].key

(* C7: as long as no initialize() call has completed successfully, each
   of searchClasses, getClassDoc, searchMethods, findPackagesByTask,
   searchPackages and getStats fails with the 'not initialized' error and
   returns nothing. *)
C7_QueriesBeforeInitializeFail ==
  ~initOk =>
    /\ lastQuery.op # "none" =>
         (lastQuery.outcome = "notInitialized" /\ lastQuery.results = <<>>)
    /\ \A p \in DOMAIN calls :
         /\ calls[p].pc # "reading"
         /\ calls[p].pc = "done" =>
              (calls[p].outcome = "notInitialized" /\ calls[p].doc = NoDoc)

\* A synchronous query and a getClassDoc call were refused while the first
\* initialize() was still loading the snapshot.
C7_Witness ==
  /\ ~initOk
  /\ ~initFailed
  /\ initPc = "reading"
  /\ lastQuery.op = "getStats"
  /\ lastQuery.outcome = "notInitialized"
  /\ \E p \in DOMAIN calls :
       calls[p].pc = "done" /\ calls[p].outcome = "notInitialized"

(* C8: after an initialize() call has failed on an indexer that was never
   initialized, the indexer is still uninitialized: it has neither a
   search engine nor a detail parser, and its queries keep failing with
   the 'not initialized' error. *)
C8_FailedInitializeLeavesUninitialized ==
  (initFailed /\ ~initOk) =>
    /\ searchEngine.isNull
    /\ classDocParser.isNull
    /\ ensureInitialized(searchEngine, classDocParser)
    /\ lastQuery.op # "none" => lastQuery.outcome = "notInitialized"
    /\ \A p \in DOMAIN calls :
         calls[p].pc = "done" => calls[p].outcome = "notInitialized"

\* initialize() failed on a snapshot without maps, after it had stored the
\* version, and a later search was refused.
C8_Witness ==
  /\ initFailed
  /\ ~initOk
  /\ initPc = "idle"
  /\ version = Some(CorpusVersion)
  /\ lastQuery.op = "searchClasses"
  /\ lastQuery.outcome = "notInitialized"

(* C9: searchClasses returns at most `limit` results, for every requested
   limit value. *)
C9_ResultsWithinLimit ==
  (lastQuery.op = "searchClasses" /\ lastQuery.outcome = "ok"
     /\ lastQuery.options.limit.has)
    => Len(lastQuery.results) <= lastQuery.options.limit.val

C11_OneEntryPerEntity ==
  /\ Len(searchEngine.classes) =
       Cardinality({FqnOf(e) : e \in Range(Entities(inventory))})
  /\ (lastQuery.op = "searchClasses" /\ lastQuery.outcome = "ok")
       => \A i, j \in 1..Len(lastQuery.results) :
            lastQuery.results[i].fullyQualifiedName
              = lastQuery.results[j].fullyQualifiedName => i = j

(* C12: for every inventory record with a package, getClass of
   package + "." + simpleName returns that very entity, and getClass of
   its simple name returns an entity with that simple name. *)
C12_LookupFindsTheEntity ==
  (lastQuery.op = "getClass" /\ lastQuery.outcome = "ok")
    => \A e \in Range(Entities(inventory)) :
         /\ lastQuery.options = FqnOf(e)
              => /\ lastQuery.results[1].found
                 /\ lastQuery.results[1].value.fullyQualifiedName = FqnOf(e)
                 /\ lastQuery.results[1].value.package = e.p
                 /\ lastQuery.results[1].value.simpleName = e.l
         /\ lastQuery.options = e.l
              => /\ lastQuery.results[1].found
                 /\ lastQuery.results[1].value.simpleName = e.l

(* C13: every package of the package map lists the fully-qualified name
   of each entity of that package exactly once and no entity of another
   package, and there is no package for the "All Packages" record. *)
C13_PackageMembersOnce ==
  /\ ~OHas(searchEngine.packageMap, "All Packages")
  /\ \A n \in 1..Len(searchEngine.packageMap) :
       LET pkg == searchEngine.packageMap[n].value
       IN /\ \A e \in Range(Entities(inventory)) :
               e.p = pkg.name
                 => Cardinality({i \in 1..Len(pkg.classes) : pkg.classes[i] = FqnOf(e)}) = 1
          /\ \A i \in 1..Len(pkg.classes) :
               \E e \in Range(Entities(inventory)) :
                 e.p = pkg.name /\ FqnOf(e) = pkg.classes[i]

\* The duplicate-free union of the entity lists of the categories a task
\* label matches.
CandidateSet(inv, task) ==
  LET lower == ToLowerCase(task)
  IN UNION {Range(inv.categoriesByTask[i].value) :
              i \in {k \in 1..Len(inv.categoriesByTask) :
                       \/ Includes(ToLowerCase(inv.categoriesByTask[k].key), lower)
                       \/ Includes(lower, ToLowerCase(inv.categoriesByTask[k].key))}}

(* C14: each result of findPackagesByTask has keyClasses = the
   duplicate-free, order-preserving intersection of the package's member
   list with the candidate set C, capped at 5, and relevanceScore =
   |keyClasses| / max(|C|, 1), hence a score within [0, 1]; one category
   with the one entity com.x.Checker yields exactly one result, with
   keyClasses = [com.x.Checker] and score 1.0. *)
C14_TaskScores ==
  (lastQuery.op = "findPackagesByTask" /\ lastQuery.outcome = "ok")
    => LET C == CandidateSet(inventory, lastQuery.options)
           size == IF Cardinality(C) > 1 THEN Cardinality(C) ELSE 1
       IN /\ \A i \in 1..Len(lastQuery.results) :
               LET r == lastQuery.results[i]
                   members == OGet(searchEngine.packageMap, r.name).classes
                   key == SliceTo(Unique(SelectSeq(members, LAMBDA c : c \in C)),
                                  PreviewSize)
               IN /\ r.keyClasses = key
                  /\ r.num * size = Len(key) * r.den
                  /\ r.num <= r.den
          /\ (inventory = CheckerInventory /\ lastQuery.options = "validation")
               => /\ Len(lastQuery.results) = 1
                  /\ lastQuery.results[1].name = "com.x"
                  /\ lastQuery.results[1].keyClasses = <<"com.x.Checker">>
                  /\ lastQuery.results[1].num = lastQuery.results[1].den

\* The member records that describe methods: those whose label has a "(".
MethodRecords(inv) == SelectSeq(inv.members, LAMBDA m : Includes(m.l, "("))

\* How many elements of a sequence satisfy a predicate.
Count(seq, P(_)) == Cardinality({i \in 1..Len(seq) : P(seq[i])})

(* C15: buildMethodIndex creates exactly one method entry per member
   record whose label contains "(" and none for any other record; the
   entry is named by the label text before the first "(" and owned by
   package + "." + class; and the method list of every entity of the class
   map holds exactly the methods of the records that entity owns. *)
C15_MethodEntries ==
  LET records == MethodRecords(inventory)
      nameOf(m) == BeforeFirstParen(m.l)
      ownerOf(m) == m.p \o "." \o m.c
  IN /\ Len(searchEngine.methods) = Len(records)
     /\ \A n \in 1..Len(searchEngine.methodMap) :
          \A e \in Range(searchEngine.methodMap[n].value) :
            e.method = searchEngine.methodMap[n].key
     /\ \A r \in Range(records) :
          Count(searchEngine.methods,
                LAMBDA e : e.method = nameOf(r) /\ e.className = ownerOf(r)
                           /\ e.packageName = r.p)
            = Count(records,
                    LAMBDA m : nameOf(m) = nameOf(r) /\ ownerOf(m) = ownerOf(r))
     /\ \A n \in 1..Len(searchEngine.classMap) :
          LET entity == searchEngine.classMap[n].value
          IN /\ Len(entity.methods)
                  = Count(records, LAMBDA m : ownerOf(m) = entity.fullyQualifiedName)
             /\ \A r \in Range(records) :
                  ownerOf(r) = entity.fullyQualifiedName
                    => Count(entity.methods,
                             LAMBDA e : e.name = nameOf(r)
                                        /\ e.className = entity.fullyQualifiedName)
                         = Count(records,
                                 LAMBDA m : nameOf(m) = nameOf(r)
                                            /\ ownerOf(m) = ownerOf(r))

(* C16: every result of searchMethods under a className filter c has an
   owning class name containing c, case-insensitively; every result under
   a non-empty returnType filter r has a return type, and it contains r,
   case-insensitively: an entry without a return type is never returned
   under a non-empty returnType filter. *)
C16_MethodFilters ==
  (lastQuery.op = "searchMethods" /\ lastQuery.outcome = "ok")
    => \A i \in 1..Len(lastQuery.results) :
         LET r == lastQuery.results[i]
         IN /\ lastQuery.options.className.has
                 => Includes(ToLowerCase(r.className),
                             ToLowerCase(lastQuery.options.className.val))
            /\ (lastQuery.options.returnType.has
                  /\ TruthyString(lastQuery.options.returnType.val))
                 => /\ r.returnType.has
                    /\ Includes(ToLowerCase(r.returnType.val),
                                ToLowerCase(lastQuery.options.returnType.val))

\* A search matched three entries, one of them without a return type, and
\* the class-name and return-type filters together let one through.
C16_Witness ==
  /\ lastQuery.op = "searchMethods"
  /\ lastQuery.outcome = "ok"
  /\ lastQuery.options.className = Some("WIDGET")
  /\ lastQuery.options.returnType = Some("STRING")
  /\ Len(lastQuery.ranked) = 3
  /\ \E i \in 1..Len(lastQuery.ranked) :
       ~searchEngine.methods[lastQuery.ranked[i]].returnType.has
  /\ Len(lastQuery.results) = 1
  /\ lastQuery.results[1].returnType = Some("java.lang.String")

\* The kind and package filters of a class search, as post-match
\* predicates: an absent or empty filter, and the kind "all", accept all.
PassesClassFilters(item, options) ==
  /\ (options.type.has /\ options.type.val \notin {"", "all"})
       => item.type = options.type.val
  /\ (options.package.has /\ options.package.val # "")
       => item.package = options.package.val

\* The class-name and return-type filters of a method search.
PassesMethodFilters(item, options) ==
  /\ (options.className.has /\ options.className.val # "")
       => Includes(ToLowerCase(item.className), ToLowerCase(options.className.val))
  /\ (options.returnType.has /\ options.returnType.val # "")
       => /\ item.returnType.has
          /\ Includes(ToLowerCase(item.returnType.val),
                      ToLowerCase(options.returnType.val))

(* C17: on an initialized index, searchClasses, searchMethods,
   searchPackages and findPackagesByTask return an empty list and raise no
   error whenever nothing matches: no fuzzy candidate, no candidate that
   passes the filters, or no category matching the task. *)
C17_NoMatchIsEmpty ==
  /\ lastQuery.op \in {"searchClasses", "searchMethods", "searchPackages",
                       "findPackagesByTask"}
       => lastQuery.outcome = "ok"
  /\ (lastQuery.op = "searchClasses"
        /\ \A i \in Range(lastQuery.ranked) :
             ~PassesClassFilters(searchEngine.classes[i], lastQuery.options))
       => lastQuery.results = <<>>
  /\ (lastQuery.op = "searchMethods"
        /\ \A i \in Range(lastQuery.ranked) :
             ~PassesMethodFilters(searchEngine.methods[i], lastQuery.options))
       => lastQuery.results = <<>>
  /\ (lastQuery.op = "searchPackages" /\ lastQuery.ranked = <<>>)
       => lastQuery.results = <<>>
  /\ (lastQuery.op = "findPackagesByTask"
        /\ CandidateSet(inventory, lastQuery.options) = {})
       => lastQuery.results = <<>>

\* A class search had fuzzy candidates, none of them in the package asked
\* for, and returned the empty list.
C17_Witness ==
  /\ lastQuery.op = "searchClasses"
  /\ lastQuery.outcome = "ok"
  /\ Len(lastQuery.ranked) >= 2
  /\ lastQuery.options.package = Some("com.x.y")
  /\ inventory = SharedNameInventory
  /\ lastQuery.results = <<>>

(* C18: once initialize() has completed, no searchClasses, searchMethods,
   searchPackages, findPackagesByTask, getStats or getClassDoc call
   changes the class, method, package or category collections of the
   index; of these calls only getClassDoc changes the detail cache. *)
C18_QueriesLeaveIndexUnchanged ==
  [][(~searchEngine.isNull /\ initPc' = initPc)
       => /\ searchEngine' = searchEngine
          /\ (cache' # cache \/ accessOrder' # accessOrder) => calls' # calls
          /\ maxSize' = maxSize]_vars

\* A document was extracted and cached, and a task query was answered
\* afterwards by the same engine.
C18_Witness ==
  /\ ~searchEngine.isNull
  /\ DOMAIN cache # {}
  /\ \E p \in DOMAIN calls :
       calls[p].pc = "done" /\ calls[p].outcome = "doc" /\ calls[p].reads = 1
  /\ lastQuery.op = "findPackagesByTask"
  /\ lastQuery.outcome = "ok"
  /\ Len(lastQuery.results) >= 1

(* C19: after the first successful detail extraction of an entity, the
   entity held by the index is enriched in place: later searchClasses
   results for it carry the kind determined by the extraction and the
   truncated description. *)
C19_SearchSeesExtractedKind ==
  [][(calls' = calls /\ initPc' = initPc /\ cache' = cache
        /\ accessOrder' = accessOrder
        /\ lastQuery'.op = "searchClasses" /\ lastQuery'.outcome = "ok")
       => \A i \in 1..Len(lastQuery'.results) :
            LET r == lastQuery'.results[i]
            IN r.fullyQualifiedName \in DOMAIN cache
                 => /\ r.type = cache[r.fullyQualifiedName].type
                    /\ r.description.has
                    /\ r.description.val
                         = SubSeq(cache[r.fullyQualifiedName].description, 1,
                             IF Len(cache[r.fullyQualifiedName].description)
                                  < DescriptionSize
                             THEN Len(cache[r.fullyQualifiedName].description)
                             ELSE DescriptionSize)]_vars

(* C20: a kind- or package-filtered class search is not starved by its
   filters: it returns the best-ranked candidates of the whole ranked
   candidate list that pass the filters, in rank order, min(limit, number
   of passing candidates) of them. *)
C20_FiltersDoNotStarve ==
  (lastQuery.op = "searchClasses" /\ lastQuery.outcome = "ok"
     /\ \/ (lastQuery.options.type.has
              /\ lastQuery.options.type.val \notin {"", "all"})
        \/ (lastQuery.options.package.has /\ lastQuery.options.package.val # ""))
    => LET limit == IF lastQuery.options.limit.has
                    THEN lastQuery.options.limit.val ELSE DefaultLimit
           candidates == [i \in 1..Len(lastQuery.ranked) |->
                            searchEngine.classes[lastQuery.ranked[i]]]
           passing == SelectSeq(candidates,
                        LAMBDA c : PassesClassFilters(c, lastQuery.options))
           expected == SliceTo(passing, limit)
       IN /\ Len(lastQuery.results) = Len(expected)
          /\ \A i \in 1..Len(expected) :
               lastQuery.results[i].fullyQualifiedName
                 = expected[i].fullyQualifiedName

----------------------------------------------------------------------------
(* C21: every tool handler rejects an empty or absent required parameter
   with an InvalidParams error without having called any operation of the
   indexer, no operation of the indexer is ever called with an empty
   query, and a null result of getClassDoc becomes an InvalidParams
   'Class not found' error. *)
C21_HandlersValidateFirst ==
  \A p \in DOMAIN toolCalls :
    toolCalls[p].pc = "done" =>
      /\ (~toolCalls[p].args.given
            \/ ~toolCalls[p].args.required.has
            \/ toolCalls[p].args.required.val = "")
           => toolCalls[p].outcome = "InvalidParams" /\ toolCalls[p].core = <<>>
      /\ \A i \in 1..Len(toolCalls[p].core) : toolCalls[p].core[i].query # ""
      /\ (toolCalls[p].tool = "get_ebx_class_doc" /\ toolCalls[p].core # <<>>
            /\ calls[p].outcome = "null")
           => /\ toolCalls[p].outcome = "InvalidParams"
              /\ toolCalls[p].message = "Class not found: " \o calls[p].name

----------------------------------------------------------------------------
(* C22: an entry cached through one ClassDocParser instance is never
   returned by another instance: the document a parser returns for an
   entity is the extraction of the document its own root holds for it. *)
C22_CacheTiedToItsCoordinator ==
  \A p \in DOMAIN calls :
    calls[p].outcome = "doc" =>
      LET own == extractClassInfoOf(
                   OGet(DocumentsAt(ParserOf(p).javadocRoot), calls[p].path),
                   calls[p].key, calls[p].path, calls[p].doc.obj)
      IN calls[p].doc = own

----------------------------------------------------------------------------
(* C23: a method-detail section whose signature has no return-type portion
   yields a stored (and cached) method record with an empty return type;
   the default "void" is not part of the stored record. *)
C23_VoidDefaultNotStored ==
  \A p \in DOMAIN calls :
    (calls[p].readOk = "ok" /\ lastQuery.op = "readFile") =>
      LET document == lastQuery.results[1]
          kept == SelectSeq(document.details, LAMBDA s : Trim(s.heading) # "")
      IN /\ Len(calls[p].doc.methods) = Len(kept)
         /\ cache[calls[p].key] = calls[p].doc
         /\ \A i \in 1..Len(kept) :
              (\A j \in 1..Len(kept[i].signature) :
                  kept[i].signature[j].cls # "return-type")
                => calls[p].doc.methods[i].returnType = ""

(* C24: the kind detail extraction assigns follows the type declaration:
   an annotation type (@interface) is an annotation, otherwise an
   interface declaration is an interface, an enum declaration an enum, an
   exception name or supertype an exception, and anything else a class. *)
C24_KindFollowsDeclaration ==
  \A p \in DOMAIN calls :
    (calls[p].readOk = "ok" /\ lastQuery.op = "readFile") =>
      LET s == lastQuery.results[1].typeSignature
      IN calls[p].doc.type =
           IF Includes(s, "@interface") THEN "annotation"
           ELSE IF Includes(s, "interface") THEN "interface"
           ELSE IF Includes(s, "enum") THEN "enum"
           ELSE IF Includes(s, "Exception") \/ Includes(s, "Error") THEN "exception"
           ELSE "class"

(* C25: the extends list and the implements list of an extracted document
   hold no name twice. *)
C25_InheritanceListsHaveNoDuplicates ==
  \A p \in DOMAIN calls :
    calls[p].readOk = "ok" =>
      NoDuplicates(calls[p].doc.extends) /\ NoDuplicates(calls[p].doc.implements)

----------------------------------------------------------------------------
(* C26: the engine loaded from the snapshot holds every key and every
   value of the class, method and package maps and of the category table
   as they were built, and answers a lookup and a task query as an engine
   over the maps before serialization does. *)
C26_SnapshotRoundTrip ==
  lastQuery.op # "none" =>
    LET before == EngineOverMaps(inventory)
    IN /\ searchEngine.classMap = before.classMap
       /\ searchEngine.methodMap = before.methodMap
       /\ searchEngine.packageMap = before.packageMap
       /\ searchEngine.categoriesByTask = before.categoriesByTask
       /\ lastQuery.op = "getClass"
            => lastQuery.results = <<getClass(before, lastQuery.options)>>
       /\ lastQuery.op = "findPackagesByTask"
            => lastQuery.results = findPackagesByTask(before, lastQuery.options)
       /\ lastQuery.op = "searchMethods"
            => /\ searchEngine.methods = before.methods
               /\ lastQuery.results =
                    searchMethods(before, lastQuery.ranked, lastQuery.options)

----------------------------------------------------------------------------
(* C27: set(k, v) for a key k that is already cached evicts nothing, even
   at capacity: the key set is unchanged, every other key keeps its value,
   k holds v, and k is the most recently used key. *)
C27_SetExistingKeyEvictsNothing ==
  [][\A key \in CacheKeys, value \in CacheValues :
       (key \in DOMAIN cache /\ Set(key, value)) =>
          /\ DOMAIN cache' = DOMAIN cache
          /\ cache'[key] = value
          /\ \A k \in DOMAIN cache \ {key} : cache'[k] = cache[k]
          /\ accessOrder' # <<>>
          /\ accessOrder'[Len(accessOrder')] = key
          /\ \A i \in 1..(Len(accessOrder') - 1) : accessOrder'[i] # key]_vars

\* A full cache of more than one key in which the least recently used key
\* has just been set again.
C27_Witness ==
  /\ lastOp.op = "set"
  /\ lastOp.hit
  /\ Cardinality(lastOp.preKeys) = maxSize
  /\ maxSize > 1
  /\ lastOp.key = lastOp.oldest
  /\ DOMAIN cache = lastOp.preKeys

----------------------------------------------------------------------------
(* C28: in every state reached by get, set and clear the recency list
   holds exactly the keys stored in the map, each exactly once; and a get
   that misses changes neither the map nor the recency list. *)
C28_RecencyListMatchesMap ==
  /\ [](NoDuplicates(accessOrder) /\ Range(accessOrder) = DOMAIN cache)
  /\ [][\A key \in CacheKeys :
          (key \notin DOMAIN cache /\ Get(key)) =>
             cache' = cache /\ accessOrder' = accessOrder]_vars

----------------------------------------------------------------------------
(* C29: a getClassDoc call whose document read fails has made one read
   attempt, and the failing step leaves the cache map and the recency
   order as they were; the failure is not remembered: a call for an entity
   that is not cached always goes on to read the document, also right
   after a failed call for the same name, and a read that succeeds caches
   the document it returns. *)
C29_FailedReadIsNotMemoized ==
  [][\A p \in DOMAIN calls :
       /\ (calls[p].pc = "reading" /\ calls'[p].pc = "done"
             /\ calls'[p].readOk = "failed")
            => /\ cache' = cache
               /\ accessOrder' = accessOrder
               /\ calls'[p].reads = 1
               /\ calls'[p].outcome = "readError"
       /\ (calls[p].pc = "done" /\ calls[p].readOk = "failed"
             /\ calls'[p] # calls[p] /\ calls'[p].name = calls[p].name
             /\ calls[p].key \notin DOMAIN cache)
            => /\ calls'[p].pc = "reading"
               /\ calls'[p].reads = 0
               /\ cache' = cache
               /\ accessOrder' = accessOrder
       /\ (calls[p].pc = "reading" /\ calls'[p].pc = "done"
             /\ calls'[p].readOk = "ok")
            => /\ calls'[p].outcome = "doc"
               /\ calls[p].key \in DOMAIN cache'
               /\ cache'[calls[p].key] = calls'[p].doc]_vars

\* One caller's read of a document failed, the entity is not cached, and
\* another caller's read of the same document succeeded and is cached
\* under a capacity that keeps it.
C29_Witness ==
  \E p, q \in DOMAIN calls :
    /\ calls[p].pc = "done" /\ calls[p].readOk = "failed"
    /\ calls[q].pc = "done" /\ calls[q].readOk = "ok"
    /\ calls[q].key = calls[p].key
    /\ calls[q].key \in DOMAIN cache

----------------------------------------------------------------------------
(* C30: in HTTP/SSE mode, while at least one SSE connection is open the
   active transport is non-null, and a POST /message is answered 503 only
   when no SSE connection is open at that moment. *)
C30_ActiveWhileConnected ==
  /\ []((\E c \in Connections : IsOpen(c)) => activeTransport # 0)
  /\ [][(PostMessage /\ lastResponse' = NoConnectionStatus)
          => ~(\E c \in Connections : IsOpen(c))]_vars

====
